---- MODULE Spec2Model ----
(***************************************************************************)
(* Proof-request construction and proof-verification policy of the        *)
(* trust-your-supplier helpers (tys/libs/helpers.js and                    *)
(* ift-network/libs/helpers.js): LoginHelper, NullProofHelper,             *)
(* AccountSignupHelper.                                                    *)
(*                                                                         *)
(* JavaScript strings that the code takes apart (attribute names, template *)
(* keys, version strings) are sequences of one-character strings.  The     *)
(* JavaScript value undefined is the constant Undefined.  An object with   *)
(* an optional property is a record that has the field or has not.         *)
(***************************************************************************)
EXTENDS Integers, Sequences, FiniteSets, TLC

VARIABLES
    helper,                 \* the class of the helper object
    proof_schema_file,      \* what fs.readFile yields for the helper's schema file
    proof_schema_template,  \* LoginHelper.proof_schema_template: <<>> is null, <<t>> is loaded
    now,                    \* the reading of Date.now()
    issued,                 \* versions of the proof requests returned so far, oldest first
    args,                   \* the arguments of the call under study
    call,                   \* the last completed call: its arguments and its outcome
    pc,                     \* AccountSignupHelper.getProofSchema: the step it is at (0: not called)
    PROOF_FORMAT,           \* its local PROOF_FORMAT: <<>> before the file is read, then <<t>>
    cred_defs,              \* what getCredentialDefinitions answered, by issuer (<<>>: not asked)
    connections,            \* the agent's connections, in order of creation
    trace,                  \* the agent calls made so far, with their outcome
    picked,                 \* the value of `restrictions` in each turn of the building loop
    stopped,                \* ConnectionResponder.stopped
    interval,               \* ConnectionResponder.interval
    loops,                  \* the polling loops begun by start(), oldest first
    offered,                \* how many connection offers have reached the agent
    credentials,            \* the credentials the agents hold
    inflight                \* the overlapping calls of the helper: where each is, and its outcome

signupVars == <<pc, PROOF_FORMAT, cred_defs, connections, trace, picked>>

responderVars == <<stopped, interval, loops, offered>>

otherVars == <<credentials, inflight>>

vars == <<helper, proof_schema_file, proof_schema_template, now, issued, args, call,
          pc, PROOF_FORMAT, cred_defs, connections, trace, picked,
          stopped, interval, loops, offered, credentials, inflight>>

-----------------------------------------------------------------------------
(* JavaScript values *)

Undefined == "undefined!"

\* the values !v treats as false, among strings and undefined
Truthy(v) == v # Undefined /\ v # ""

UpperChars == <<"A","B","C","D","E","F","G","H","I","J","K","L","M",
                "N","O","P","Q","R","S","T","U","V","W","X","Y","Z">>

LowerChars == <<"a","b","c","d","e","f","g","h","i","j","k","l","m",
                "n","o","p","q","r","s","t","u","v","w","x","y","z">>

\* the lower-case letter of each upper-case letter
LowerOf ==
    [c \in {UpperChars[i] : i \in DOMAIN UpperChars} |->
        LowerChars[CHOOSE i \in DOMAIN UpperChars : UpperChars[i] = c]]

ToLowerChar(c) == IF c \in DOMAIN LowerOf THEN LowerOf[c] ELSE c

\* String.prototype.toLowerCase
ToLowerCase(s) == [i \in DOMAIN s |-> ToLowerChar(s[i])]

\* s.split(' ').join(''): every space removed
RECURSIVE RemoveSpaces(_)
RemoveSpaces(s) ==
    IF s = <<>> THEN <<>>
    ELSE IF Head(s) = " " THEN RemoveSpaces(Tail(s))
    ELSE <<Head(s)>> \o RemoveSpaces(Tail(s))

\* String.prototype.indexOf: the 0-based place of the first occurrence, or -1
IndexOf(s, sub) ==
    LET places == {i \in 0..(Len(s) - Len(sub)) :
                      \A j \in 1..Len(sub) : s[i + j] = sub[j]}
    IN  IF places = {} THEN -1
        ELSE CHOOSE i \in places : \A k \in places : i <= k

-----------------------------------------------------------------------------
(* LoginHelper.checkProof *)

\* schema_attr.name.toLowerCase().split(' ').join('')
NormalizedName(schema_attr) == RemoveSpaces(ToLowerCase(schema_attr.name))

\* a mutation of Matches: the name of the proof attribute normalized as well
MatchesBothNormalized(proof_attr, schema_attr) ==
    /\ proof_attr.name # <<>>
    /\ RemoveSpaces(ToLowerCase(proof_attr.name)) = NormalizedName(schema_attr)

\* the negation of the `continue` condition of the inner loop
Matches(proof_attr, schema_attr) ==
    /\ proof_attr.name # <<>>
    /\ proof_attr.name = NormalizedName(schema_attr)

\* schema_attr.restrictions && schema_attr.restrictions.length
HasRestrictions(schema_attr) ==
    /\ "restrictions" \in DOMAIN schema_attr
    /\ Len(schema_attr.restrictions) > 0

\* a mutation of Unverified: the credential check dropped
UnverifiedNever(schema_attr, proof_attr) == FALSE

\* a mutation of Unverified: a credential demanded of every attribute
UnverifiedAlways(schema_attr, proof_attr) == ~Truthy(proof_attr.cred_def_id)

\* the condition under which the inner loop throws for a matching attribute
Unverified(schema_attr, proof_attr) ==
    HasRestrictions(schema_attr) /\ ~Truthy(proof_attr.cred_def_id)

\* user_record.personal_info[name]
StoredValue(user_record, name) ==
    IF name \in DOMAIN user_record.personal_info
    THEN user_record.personal_info[name]
    ELSE Undefined

NoAttr == <<>>

\* The inner loop over the verification's attributes from index i on, with
\* accepted_proof_attr so far (<<>> while it is undefined).  Yields
\* [thrown |-> TRUE] when the loop throws, else the final accepted_proof_attr.
RECURSIVE InnerLoop(_, _, _, _)
InnerLoop(schema_attr, attributes, i, accepted) ==
    IF i > Len(attributes) THEN [thrown |-> FALSE, accepted |-> accepted]
    ELSE IF ~Matches(attributes[i], schema_attr)
         THEN InnerLoop(schema_attr, attributes, i + 1, accepted)
    ELSE IF Unverified(schema_attr, attributes[i])
         THEN [thrown |-> TRUE, accepted |-> accepted]
    ELSE InnerLoop(schema_attr, attributes, i + 1, <<attributes[i]>>)

\* a mutation of ValueMismatch: the comparison with the user record dropped
ValueMismatchPresenceOnly(accepted, schema_attr, user_record) ==
    accepted = NoAttr

\* a mutation of ValueMismatch: an attribute missing from the proof let through
ValueMismatchSkipsAbsent(accepted, schema_attr, user_record) ==
    /\ accepted # NoAttr
    /\ StoredValue(user_record, schema_attr.name) # accepted[1].value

\* the condition of the throw after the inner loop
ValueMismatch(accepted, schema_attr, user_record) ==
    \/ accepted = NoAttr
    \/ accepted[1].name = <<>>
    \/ StoredValue(user_record, schema_attr.name) # accepted[1].value

ErrNoCredential(schema_attr) ==
    [ok |-> FALSE, error |-> "did not have an associated credential", attr |-> schema_attr.name]

ErrNoMatch(schema_attr) ==
    [ok |-> FALSE, error |-> "did not match the user record", attr |-> schema_attr.name]

ResultTrue == [ok |-> TRUE]

\* The outer loop over the template's requested attributes from index k on.
RECURSIVE OuterLoop(_, _, _, _)
OuterLoop(requested_attributes, attributes, user_record, k) ==
    IF k > Len(requested_attributes) THEN ResultTrue
    ELSE LET schema_attr == requested_attributes[k]
             inner == InnerLoop(schema_attr, attributes, 1, NoAttr)
         IN  IF inner.thrown THEN ErrNoCredential(schema_attr)
             ELSE IF ValueMismatch(inner.accepted, schema_attr, user_record)
                  THEN ErrNoMatch(schema_attr)
             ELSE OuterLoop(requested_attributes, attributes, user_record, k + 1)

-----------------------------------------------------------------------------
(* Loading the schema template (LoginHelper.getProofSchema and checkProof) *)

\* !proof_schema.name || !proof_schema.version
InvalidProofSchema(proof_schema) ==
    IF "name" \notin DOMAIN proof_schema THEN TRUE
    ELSE IF ~Truthy(proof_schema.name) THEN TRUE
    ELSE IF "version" \notin DOMAIN proof_schema THEN TRUE
    ELSE proof_schema.version = <<>>

\* fs.readFile, JSON.parse and the name/version test: the template, or the error
LoadTemplate(file) ==
    IF file.status = "unreadable" THEN [ok |-> FALSE, error |-> "readFile error"]
    ELSE IF file.status = "invalid_json" THEN [ok |-> FALSE, error |-> "SyntaxError"]
    ELSE IF InvalidProofSchema(file.json) THEN [ok |-> FALSE, error |-> "Invalid proof schema"]
    ELSE [ok |-> TRUE, template |-> file.json]

\* verification && verification.info && verification.info.attributes
HasAttributes(verification) ==
    /\ "info" \in DOMAIN verification
    /\ "attributes" \in DOMAIN verification.info

\* user_record && user_record.personal_info
HasPersonalInfo(user_record) == "personal_info" \in DOMAIN user_record

\* for (const key in template.requested_attributes): the entries in key order
RequestedAttributes(template) ==
    IF "requested_attributes" \in DOMAIN template
    THEN template.requested_attributes
    ELSE <<>>

\* LoginHelper.checkProof: the outcome and the template cache it leaves
CheckProof(cache, file, verification, user_record) ==
    IF ~HasAttributes(verification)
    THEN [cache |-> cache,
          result |-> [ok |-> FALSE, error |-> "No attributes found in given Verification"]]
    ELSE IF ~HasPersonalInfo(user_record)
    THEN [cache |-> cache, result |-> [ok |-> FALSE, error |-> "Invalid user record"]]
    ELSE IF cache = <<>> /\ ~LoadTemplate(file).ok
    THEN [cache |-> cache,
          result |-> [ok |-> FALSE, error |-> LoadTemplate(file).error]]
    ELSE LET template == IF cache = <<>> THEN LoadTemplate(file).template ELSE cache[1]
         IN  [cache |-> <<template>>,
              result |-> OuterLoop(RequestedAttributes(template),
                                   verification.info.attributes, user_record, 1)]

-----------------------------------------------------------------------------
(* Inputs of the login helper *)

MaxAttrs == 2       \* attributes in one verification

CredDefIds == {"cd1", "cd2"}

Ssn == <<"s","s","n">>

FullName == <<"F"," ","n">>

SchemaNames == {Ssn, FullName}

ProofNames == {<<"s","s","n">>, <<"f","n">>, <<"F"," ","n">>}

ProofValues == {"a", "b"}

\* what user_record.personal_info may hold under a name (Undefined: nothing)
StoredValues == {"a", Undefined}

Restricted == <<[cred_def_id |-> "cd1"]>>

Version == <<"1",".","0">>

LoginTemplates ==
    { [name |-> "login", version |-> Version],
      [name |-> "login", version |-> Version, requested_attributes |-> <<>>],
      [name |-> "login", version |-> Version, requested_attributes |->
          << [key |-> "k1", name |-> Ssn, restrictions |-> Restricted] >>],
      [name |-> "login", version |-> Version, requested_attributes |->
          << [key |-> "k1", name |-> Ssn, restrictions |-> <<>>] >>],
      [name |-> "login", version |-> Version, requested_attributes |->
          << [key |-> "k1", name |-> FullName] >>],
      [name |-> "login", version |-> Version, requested_attributes |->
          << [key |-> "k1", name |-> Ssn, restrictions |-> Restricted],
             [key |-> "k2", name |-> FullName] >>],
      [name |-> "login", version |-> Version, requested_attributes |->
          << [key |-> "k1", name |-> FullName],
             [key |-> "k2", name |-> Ssn, restrictions |-> Restricted] >>],
      [name |-> "login", version |-> Version, requested_attributes |->
          << [key |-> "k1", name |-> Ssn, restrictions |-> Restricted],
             [key |-> "k2", name |-> Ssn] >>] }

InvalidSchemas ==
    { [version |-> Version, requested_attributes |->
          << [key |-> "k1", name |-> Ssn, restrictions |-> Restricted] >>],
      [name |-> "login", requested_attributes |-> << [key |-> "k1", name |-> Ssn] >>],
      [name |-> "login", version |-> <<>>, requested_attributes |->
          << [key |-> "k1", name |-> Ssn] >>] }

LoginFiles ==
    {[status |-> "unreadable"], [status |-> "invalid_json"]}
        \cup {[status |-> "ok", json |-> t] : t \in LoginTemplates \cup InvalidSchemas}

ProofAttrs ==
    [name : ProofNames, value : ProofValues, cred_def_id : {Undefined, "cd1"}]

SeqsUpTo(S, n) == UNION {[1..m -> S] : m \in 0..n}

Verifications ==
    {[id |-> "ver1"]}
        \cup {[id |-> "ver1", info |-> [attributes |-> a]] : a \in SeqsUpTo(ProofAttrs, MaxAttrs)}

UserRecords ==
    {[email |-> "u"]}
        \cup {[email |-> "u", personal_info |-> p] :
                 p \in [SchemaNames -> StoredValues]}

NoCall == [op |-> "none"]

Issuers == {"lei", "gleif", "tys", "iftfounder"}

\* no AccountSignupHelper at work
SignupIdle ==
    /\ pc = 0
    /\ PROOF_FORMAT = <<>>
    /\ cred_defs = [i \in Issuers |-> <<>>]
    /\ connections = <<>>
    /\ trace = <<>>
    /\ picked = <<>>

\* the default of the ConnectionResponder's polling interval, in milliseconds
DefaultInterval == 3000

\* a JavaScript number that is not NaN
Number(n) == [type |-> "number", nan |-> FALSE, value |-> n]

\* the JavaScript number NaN
NaN == [type |-> "number", nan |-> TRUE, value |-> 0]

\* typeof v
TypeOf(v) == v.type

\* v < 0, for v a number or undefined: false of NaN and of undefined
LessThanZero(v) == IF TypeOf(v) = "number" /\ ~v.nan THEN v.value < 0 ELSE FALSE

\* no timer is running
NoDelay == [type |-> "undefined"]

\* no ConnectionResponder at work
ResponderIdle ==
    /\ stopped = TRUE
    /\ interval = Number(DefaultInterval)
    /\ loops = <<>>
    /\ offered = 0

\* no agent holds a credential, and no call of the helper is under way
OthersIdle ==
    /\ credentials = <<>>
    /\ inflight = <<>>

-----------------------------------------------------------------------------
(* The login helper checking proofs *)

CheckInit ==
    /\ helper = "LoginHelper"
    /\ proof_schema_file \in LoginFiles
    /\ proof_schema_template = <<>>
    /\ now = 1
    /\ issued = <<>>
    /\ args \in [verification : Verifications, user_record : UserRecords]
    /\ call = NoCall
    /\ SignupIdle
    /\ OthersIdle
    /\ ResponderIdle

\* checkProof(args.verification, args.user_record), the first time or again
LoginCheckProof ==
    LET r == CheckProof(proof_schema_template, proof_schema_file,
                        args.verification, args.user_record)
    IN  /\ proof_schema_template' = r.cache
        /\ call' = [op |-> "checkProof", cached |-> proof_schema_template # <<>>,
                    result |-> r.result]
        /\ UNCHANGED <<helper, proof_schema_file, now, issued, args>>
        /\ UNCHANGED <<signupVars, responderVars, otherVars>>

CheckNext == LoginCheckProof

SpecCheck == CheckInit /\ [][CheckNext]_vars

-----------------------------------------------------------------------------
(* LoginHelper.checkProof: claims *)

\* the attributes the helper's schema file declares
DeclaredAttributes ==
    IF proof_schema_file.status = "ok"
    THEN RequestedAttributes(proof_schema_file.json)
    ELSE <<>>

\* the attributes of the verification handed to checkProof
GivenAttributes ==
    IF HasAttributes(args.verification)
    THEN args.verification.info.attributes
    ELSE <<>>

\* the places of the verification attributes whose name matches schema_attr
MatchingPlaces(schema_attr) ==
    {i \in DOMAIN GivenAttributes : Matches(GivenAttributes[i], schema_attr)}

\* the matching attribute checkProof retains: the last one in the list
LastMatch(schema_attr) ==
    GivenAttributes[CHOOSE i \in MatchingPlaces(schema_attr) :
                        \A j \in MatchingPlaces(schema_attr) : j <= i]

DeclaresRestrictions(schema_attr) ==
    "restrictions" \in DOMAIN schema_attr /\ schema_attr.restrictions # <<>>

Checked == call.op = "checkProof"

C1_Case ==
    /\ Checked
    /\ \E k \in DOMAIN DeclaredAttributes :
          /\ DeclaresRestrictions(DeclaredAttributes[k])
          /\ \E i \in MatchingPlaces(DeclaredAttributes[k]) :
                GivenAttributes[i].cred_def_id = Undefined

\* C1: checkProof never returns true when some template attribute declares a
\* non-empty restrictions list and a verification attribute matching it by name
\* carries no cred_def_id, whatever the values and the user record.
C1_SelfAttestedRestrictedRejected == C1_Case => ~call.result.ok

C1_Witness ==
    /\ C1_Case
    /\ HasPersonalInfo(args.user_record)
    /\ ~call.result.ok
    /\ call.result.error = "did not have an associated credential"

C2_Case ==
    /\ Checked
    /\ \E k \in DOMAIN DeclaredAttributes : MatchingPlaces(DeclaredAttributes[k]) = {}

\* C2: checkProof rejects when some attribute declared in the template has no
\* verification attribute with a matching name, for every verification and
\* every user record.
C2_AbsentAttributeRejected == C2_Case => ~call.result.ok

C2_Witness ==
    /\ C2_Case
    /\ HasAttributes(args.verification)
    /\ HasPersonalInfo(args.user_record)
    /\ ~call.result.ok
    /\ call.result.error = "did not match the user record"
    /\ \E k \in DOMAIN DeclaredAttributes :
          /\ MatchingPlaces(DeclaredAttributes[k]) = {}
          /\ call.result.attr = DeclaredAttributes[k].name
          /\ StoredValue(args.user_record, DeclaredAttributes[k].name) = Undefined

C3_Case ==
    /\ Checked
    /\ HasPersonalInfo(args.user_record)
    /\ \E k \in DOMAIN DeclaredAttributes :
          /\ MatchingPlaces(DeclaredAttributes[k]) # {}
          /\ LastMatch(DeclaredAttributes[k]).value
                # StoredValue(args.user_record, DeclaredAttributes[k].name)

\* C3: checkProof rejects when, for some declared template attribute, the value
\* of the matched verification attribute (the one checkProof retains, the last
\* with a matching name) differs from the value stored under that attribute's
\* name in user_record.personal_info.
C3_ValueMismatchRejected == C3_Case => ~call.result.ok

C3_Witness ==
    /\ C3_Case
    /\ ~call.result.ok
    /\ call.result.error = "did not match the user record"
    /\ \A k \in DOMAIN DeclaredAttributes :
          \A i \in MatchingPlaces(DeclaredAttributes[k]) :
              GivenAttributes[i].cred_def_id # Undefined

\* a call on a loadable template with a well-formed verification and user record
C4_Domain ==
    /\ Checked
    /\ LoadTemplate(proof_schema_file).ok
    /\ HasAttributes(args.verification)
    /\ HasPersonalInfo(args.user_record)

\* C4 as stated: checkProof returns true whenever every attribute declared in
\* the template is present in the verification, carries a cred_def_id where the
\* template entry declares restrictions, and has the stored value.
C4_AsStated ==
    ( /\ C4_Domain
      /\ \A k \in DOMAIN DeclaredAttributes :
            \E i \in MatchingPlaces(DeclaredAttributes[k]) :
                /\ DeclaresRestrictions(DeclaredAttributes[k])
                      => GivenAttributes[i].cred_def_id # Undefined
                /\ GivenAttributes[i].value
                      = StoredValue(args.user_record, DeclaredAttributes[k].name) )
    => call.result.ok

C4_Case ==
    /\ C4_Domain
    /\ \A k \in DOMAIN DeclaredAttributes :
          /\ MatchingPlaces(DeclaredAttributes[k]) # {}
          /\ DeclaresRestrictions(DeclaredAttributes[k])
                => \A i \in MatchingPlaces(DeclaredAttributes[k]) :
                       GivenAttributes[i].cred_def_id # Undefined
          /\ LastMatch(DeclaredAttributes[k]).value
                = StoredValue(args.user_record, DeclaredAttributes[k].name)

\* C4 (amended): checkProof returns true whenever, for every attribute declared
\* in the template, the verification holds an attribute with a matching name,
\* every verification attribute with a matching name carries a cred_def_id
\* where the template entry declares restrictions, and the last verification
\* attribute with a matching name has the stored value.
C4_AcceptsWhenAllMatch == C4_Case => call.result.ok

C4_Witness ==
    /\ C4_Case
    /\ call.result.ok
    /\ Len(DeclaredAttributes) > 1
    /\ \E k \in DOMAIN DeclaredAttributes : DeclaresRestrictions(DeclaredAttributes[k])
    /\ \E k \in DOMAIN DeclaredAttributes :
          Cardinality(MatchingPlaces(DeclaredAttributes[k])) > 1

-----------------------------------------------------------------------------
(* LoginHelper.getProofSchema and NullProofHelper.getProofSchema *)

MaxClock == 11      \* the last reading of Date.now()

MaxCalls == 3       \* getProofSchema calls in one run

Digits == <<"0","1","2","3","4","5","6","7","8","9">>

\* the decimal string of a number, as string concatenation writes it
RECURSIVE Decimal(_)
Decimal(n) ==
    IF n < 10 THEN <<Digits[n + 1]>>
    ELSE Decimal(n \div 10) \o <<Digits[(n % 10) + 1]>>

\* version + Date.now()
StampVersion(version, t) == version \o Decimal(t)

\* opts && opts.restrictions
HasOptRestrictions(opts) == "restrictions" \in DOMAIN opts

\* a mutation of AssignRestrictions: the restrictions a template entry declares kept
AssignRestrictionsWhereNone(requested_attributes, restrictions) ==
    [k \in DOMAIN requested_attributes |->
        IF "restrictions" \in DOMAIN requested_attributes[k]
        THEN requested_attributes[k]
        ELSE [key |-> requested_attributes[k].key,
              name |-> requested_attributes[k].name,
              restrictions |-> restrictions]]

\* for (const key in ret.requested_attributes)
\*     ret.requested_attributes[key].restrictions = opts.restrictions
AssignRestrictions(requested_attributes, restrictions) ==
    [k \in DOMAIN requested_attributes |->
        [key |-> requested_attributes[k].key,
         name |-> requested_attributes[k].name,
         restrictions |-> restrictions]]

\* the copy of the template that getProofSchema returns at clock reading t
ProofRequest(template, opts, t) ==
    LET ret == [template EXCEPT !.version = StampVersion(template.version, t)]
    IN  IF "requested_attributes" \in DOMAIN ret /\ HasOptRestrictions(opts)
        THEN [ret EXCEPT !.requested_attributes =
                  AssignRestrictions(ret.requested_attributes, opts.restrictions)]
        ELSE ret

\* a mutation of GetProofSchema: the parsed file cached before name and version
\* are tested
GetProofSchemaCachesUntested(cache, file, opts, t) ==
    IF cache = <<>> /\ ~LoadTemplate(file).ok
    THEN [cache |-> IF file.status = "ok" THEN <<file.json>> ELSE cache,
          result |-> [ok |-> FALSE, error |-> LoadTemplate(file).error]]
    ELSE LET template == IF cache = <<>> THEN LoadTemplate(file).template ELSE cache[1]
         IN  [cache |-> <<template>>,
              result |-> [ok |-> TRUE, value |-> ProofRequest(template, opts, t)]]

\* LoginHelper.getProofSchema: the outcome and the template cache it leaves
GetProofSchema(cache, file, opts, t) ==
    IF cache = <<>> /\ ~LoadTemplate(file).ok
    THEN [cache |-> cache, result |-> [ok |-> FALSE, error |-> LoadTemplate(file).error]]
    ELSE LET template == IF cache = <<>> THEN LoadTemplate(file).template ELSE cache[1]
         IN  [cache |-> <<template>>,
              result |-> [ok |-> TRUE, value |-> ProofRequest(template, opts, t)]]

\* NullProofHelper.getProofSchema
NullProofSchema(t) ==
    [name |-> "Dummy Proof Request",
     version |-> StampVersion(<<"1",".","0">>, t),
     requested_attributes |->
         << [key |-> "dummy_attribute", name |-> <<"d","u","m","m","y">>] >>]

\* opts: undefined, an object without restrictions, objects with restrictions
NoOpts == [undefined |-> TRUE]

Options ==
    { NoOpts,
      [uselei |-> TRUE],
      [restrictions |-> <<>>],
      [restrictions |-> << [cred_def_id |-> "cd2"] >>],
      [restrictions |-> << [cred_def_id |-> "cd1"], [cred_def_id |-> "cd2"] >>] }

NoArgs == [verification |-> [id |-> "none"], user_record |-> [email |-> "none"]]

SchemaInit ==
    /\ helper \in {"LoginHelper", "NullProofHelper"}
    /\ proof_schema_file \in LoginFiles
    /\ proof_schema_template = <<>>
    /\ now = 9
    /\ issued = <<>>
    /\ args = NoArgs
    /\ call = NoCall
    /\ SignupIdle
    /\ OthersIdle
    /\ ResponderIdle

\* time passes between two calls
Tick ==
    /\ now < MaxClock
    /\ now' = now + 1
    /\ UNCHANGED <<helper, proof_schema_file, proof_schema_template, issued, args, call>>
    /\ UNCHANGED <<signupVars, responderVars, otherVars>>

\* a mutation of LoginGetProofSchema: the template itself is stamped and
\* returned, no copy of it is made
LoginGetProofSchemaNoCopy ==
    /\ helper = "LoginHelper"
    /\ Len(issued) < MaxCalls
    /\ \E opts \in Options :
          LET r == GetProofSchema(proof_schema_template, proof_schema_file, opts, now)
          IN  /\ proof_schema_template' = IF r.result.ok THEN <<r.result.value>> ELSE r.cache
              /\ issued' = IF r.result.ok
                           THEN Append(issued, r.result.value.version)
                           ELSE issued
              /\ call' = [op |-> "getProofSchema", opts |-> opts, result |-> r.result]
    /\ UNCHANGED <<helper, proof_schema_file, now, args>>
    /\ UNCHANGED <<signupVars, responderVars, otherVars>>

LoginGetProofSchema ==
    /\ helper = "LoginHelper"
    /\ Len(issued) < MaxCalls
    /\ \E opts \in Options :
          LET r == GetProofSchema(proof_schema_template, proof_schema_file, opts, now)
          IN  /\ proof_schema_template' = r.cache
              /\ issued' = IF r.result.ok
                           THEN Append(issued, r.result.value.version)
                           ELSE issued
              /\ call' = [op |-> "getProofSchema", opts |-> opts, result |-> r.result]
    /\ UNCHANGED <<helper, proof_schema_file, now, args>>
    /\ UNCHANGED <<signupVars, responderVars, otherVars>>

NullGetProofSchema ==
    /\ helper = "NullProofHelper"
    /\ Len(issued) < MaxCalls
    /\ issued' = Append(issued, NullProofSchema(now).version)
    /\ call' = [op |-> "getProofSchema", opts |-> NoOpts,
                result |-> [ok |-> TRUE, value |-> NullProofSchema(now)]]
    /\ UNCHANGED <<helper, proof_schema_file, proof_schema_template, now, args>>
    /\ UNCHANGED <<signupVars, responderVars, otherVars>>

SchemaNext == Tick \/ LoginGetProofSchema \/ NullGetProofSchema

SpecSchema == SchemaInit /\ [][SchemaNext]_vars

-----------------------------------------------------------------------------
(* getProofSchema: claims *)

\* C5: within one run of one helper, the version of each proof request that
\* getProofSchema returns differs from the version of every proof request an
\* earlier call returned, also when calls fall on the same clock reading.
C5_VersionsUnique ==
    \A i, j \in DOMAIN issued : i # j => issued[i] # issued[j]

Returned ==
    /\ helper = "LoginHelper"
    /\ call.op = "getProofSchema"
    /\ call.result.ok
    /\ "requested_attributes" \in DOMAIN proof_schema_template[1]

\* C6: when LoginHelper.getProofSchema is called with opts.restrictions on a
\* template that has requested_attributes, every requested attribute of the
\* returned proof request carries exactly that restriction list (and the
\* returned request has the template's attributes, none lost or added); when
\* opts.restrictions is not given, each attribute is as in the template, with
\* the restrictions the template declares or without any.
C6_RestrictionsApplied ==
    Returned =>
        LET template == proof_schema_template[1]
            ret == call.result.value
        IN  /\ "requested_attributes" \in DOMAIN ret
            /\ DOMAIN ret.requested_attributes = DOMAIN template.requested_attributes
            /\ \A k \in DOMAIN ret.requested_attributes :
                  /\ ret.requested_attributes[k].name = template.requested_attributes[k].name
                  /\ IF "restrictions" \in DOMAIN call.opts
                     THEN /\ "restrictions" \in DOMAIN ret.requested_attributes[k]
                          /\ ret.requested_attributes[k].restrictions
                                = call.opts.restrictions
                     ELSE ret.requested_attributes[k] = template.requested_attributes[k]

C6_Witness ==
    /\ Returned
    /\ "restrictions" \in DOMAIN call.opts
    /\ Len(call.opts.restrictions) > 1
    /\ Len(proof_schema_template[1].requested_attributes) > 1
    /\ \E k \in DOMAIN proof_schema_template[1].requested_attributes :
          "restrictions" \in DOMAIN proof_schema_template[1].requested_attributes[k]
    /\ \E k \in DOMAIN proof_schema_template[1].requested_attributes :
          "restrictions" \notin DOMAIN proof_schema_template[1].requested_attributes[k]
    /\ Len(issued) > 1

-----------------------------------------------------------------------------
(* AccountSignupHelper.getProofSchema, of tys and of ift-network *)

TysSignup == "tys/AccountSignupHelper"

IftSignup == "ift-network/AccountSignupHelper"

\* the awaited steps of getProofSchema (with those of setup() inlined), in order
TysProgram ==
    << [op |-> "readFile", issuer |-> ""],
       [op |-> "getCredentialDefinitions", issuer |-> "lei"],
       [op |-> "createConnection", issuer |-> "lei"],
       [op |-> "waitForConnection", issuer |-> "lei"],
       [op |-> "createConnection", issuer |-> "gleif"],
       [op |-> "waitForConnection", issuer |-> "gleif"],
       [op |-> "getCredentialDefinitions", issuer |-> "gleif"],
       [op |-> "build", issuer |-> ""] >>

IftProgram ==
    << [op |-> "readFile", issuer |-> ""],
       [op |-> "createConnection", issuer |-> "iftfounder"],
       [op |-> "waitForConnection", issuer |-> "iftfounder"],
       [op |-> "createConnection", issuer |-> "tys"],
       [op |-> "waitForConnection", issuer |-> "tys"],
       [op |-> "createConnection", issuer |-> "lei"],
       [op |-> "waitForConnection", issuer |-> "lei"],
       [op |-> "getCredentialDefinitions", issuer |-> "iftfounder"],
       [op |-> "getCredentialDefinitions", issuer |-> "tys"],
       [op |-> "getCredentialDefinitions", issuer |-> "lei"],
       [op |-> "build", issuer |-> ""] >>

Program == IF helper = TysSignup THEN TysProgram ELSE IftProgram

\* the call has returned or thrown
Finished == Len(Program) + 1

\* the step the call is about to take
Step == Program[pc]

\* the property that tags the connection to an issuer and selects its lookup
TagOf ==
    [lei |-> "trustedLEIIssuer", gleif |-> "trustedGLEIF",
     tys |-> "trustedTYSIssuer", iftfounder |-> "trustedIFTFounderIssuer"]

\* the file getProofSchema reads: ift-network chooses by opts.uselei === true
SchemaFileRead ==
    IF helper = TysSignup THEN proof_schema_file.proof_schema_path
    ELSE IF "uselei" \in DOMAIN args.opts /\ args.opts.uselei = TRUE
         THEN proof_schema_file.proof_schema_path_lei
         ELSE proof_schema_file.proof_schema_path_tys

\* for (cred_def_index in agent.results.items) push({cred_def_id: ...id})
ItemRestrictions(items) == [c \in DOMAIN items |-> [cred_def_id |-> items[c].id]]

\* for (agent_index in cred_defs.agents): the restrictions pushed, in order
RECURSIVE AgentsRestrictions(_)
AgentsRestrictions(agents) ==
    IF agents = <<>> THEN <<>>
    ELSE ItemRestrictions(Head(agents).results.items) \o AgentsRestrictions(Tail(agents))

\* the restriction list built from the answer of one issuer's lookup
Restrictions(issuer) == AgentsRestrictions(cred_defs[issuer][1].agents)

MarkerLei == <<"l","e","i">>

MarkerUnderscoreLei == <<"_","l","e","i">>

MarkerUnderscoreGleif == <<"_","g","l","e","i","f">>

MarkerTys == <<"t","y","s">>

MarkerIft == <<"i","f","t">>

\* a mutation of TysRestrictionsFor: the two markers tested in the other order
TysRestrictionsForGleifFirst(key, lei_issuer_restrictions, gleif_restrictions) ==
    IF IndexOf(ToLowerCase(key), MarkerUnderscoreGleif) >= 0 THEN gleif_restrictions
    ELSE IF IndexOf(ToLowerCase(key), MarkerUnderscoreLei) >= 0 THEN lei_issuer_restrictions
    ELSE <<>>

\* tys: the if/else chain that sets `restrictions` for one template key
TysRestrictionsFor(key, lei_issuer_restrictions, gleif_restrictions) ==
    IF IndexOf(ToLowerCase(key), MarkerUnderscoreLei) >= 0 THEN lei_issuer_restrictions
    ELSE IF IndexOf(ToLowerCase(key), MarkerUnderscoreGleif) >= 0 THEN gleif_restrictions
    ELSE <<>>

\* a mutation of IftRestrictionsFor: the lists of two issuers taken for one another
IftRestrictionsForMixed(key, tys_issuer_restrictions, iftfounder_issuer_restrictions, lei_issuer_restrictions) ==
    IF IndexOf(ToLowerCase(key), MarkerTys) >= 0 THEN lei_issuer_restrictions
    ELSE IF IndexOf(ToLowerCase(key), MarkerIft) >= 0 THEN iftfounder_issuer_restrictions
    ELSE IF IndexOf(ToLowerCase(key), MarkerLei) >= 0 THEN tys_issuer_restrictions
    ELSE <<>>

\* ift-network: the if/else chain that sets `restrictions` for one template key
IftRestrictionsFor(key, tys_issuer_restrictions, iftfounder_issuer_restrictions, lei_issuer_restrictions) ==
    IF IndexOf(ToLowerCase(key), MarkerTys) >= 0 THEN tys_issuer_restrictions
    ELSE IF IndexOf(ToLowerCase(key), MarkerIft) >= 0 THEN iftfounder_issuer_restrictions
    ELSE IF IndexOf(ToLowerCase(key), MarkerLei) >= 0 THEN lei_issuer_restrictions
    ELSE <<>>

\* `restrictions` for one key, in the helper at work
RestrictionsFor(key) ==
    IF helper = TysSignup
    THEN TysRestrictionsFor(key, Restrictions("lei"), Restrictions("gleif"))
    ELSE IftRestrictionsFor(key, Restrictions("tys"), Restrictions("iftfounder"),
                            Restrictions("lei"))

\* proof_request.requested_attributes[attribute] = {name, restrictions}: the
\* object after the loop has run over the template entries from index k on
RECURSIVE BuildLoop(_, _, _)
BuildLoop(requested_attributes, k, object) ==
    IF k > Len(requested_attributes) THEN object
    ELSE LET attribute == requested_attributes[k].name
             entry == [name |-> attribute,
                       restrictions |-> RestrictionsFor(requested_attributes[k].key)]
         IN  BuildLoop(requested_attributes, k + 1,
                       [n \in DOMAIN object \cup {attribute} |->
                            IF n = attribute THEN entry ELSE object[n]])

\* the empty object {}
EmptyObject == [n \in {} |-> n]

\* a mutation of SetupThrows: the error logged and the call carried on
SetupErrorSwallowed(k, error) == [pc |-> k + 1, thrown |-> <<>>]

\* `await this.setup()` with a rejected createConnection or waitForConnection:
\* getProofSchema rejects with the error
SetupThrows(k, error) == [pc |-> Finished, thrown |-> <<error>>]

-----------------------------------------------------------------------------
(* Inputs of the signup helpers *)

KeyName == <<"n","a","m","e">>

KeyIdLei == <<"i","d","_","L","E","I">>

KeyLei == <<"l","e","i">>

KeyGleif == <<"x","_","G","l","e","i","f">>

KeyLeiGleif == <<"a","_","l","e","i","_","g","l","e","i","f">>

KeyGleifLei == <<"a","_","g","l","e","i","f","_","l","e","i">>

KeyTys == <<"T","Y","S","_","i","d">>

KeyGift == <<"g","i","f","t">>

KeyIftTys == <<"i","f","t","_","t","y","s">>

KeyLeiIft == <<"l","e","i","_","I","f","t">>

SignupTemplates ==
    { [name |-> "signup", version |-> Version],
      [name |-> "signup", version |-> Version, requested_attributes |->
          << [key |-> KeyName, name |-> "company_name"],
             [key |-> KeyIdLei, name |-> "lei"],
             [key |-> KeyGleif, name |-> "gleif_id"] >>],
      [name |-> "signup", version |-> Version, requested_attributes |->
          << [key |-> KeyLeiGleif, name |-> "n1"],
             [key |-> KeyGleifLei, name |-> "n2"],
             [key |-> KeyLei, name |-> "n3"] >>],
      [name |-> "signup", version |-> Version, requested_attributes |->
          << [key |-> KeyTys, name |-> "tys_identifier"],
             [key |-> KeyGift, name |-> "n1"],
             [key |-> KeyIftTys, name |-> "n2"] >>],
      [name |-> "signup", version |-> Version, requested_attributes |->
          << [key |-> KeyLeiIft, name |-> "n1"],
             [key |-> KeyLei, name |-> "lei"],
             [key |-> KeyIftTys, name |-> "n3"] >>],
      [name |-> "signup", version |-> Version, requested_attributes |->
          << [key |-> KeyIdLei, name |-> "company_name"],
             [key |-> KeyGleif, name |-> "company_name"] >>],
      [name |-> "signup", version |-> Version, requested_attributes |->
          << [key |-> KeyTys, name |-> "company_name"],
             [key |-> KeyGift, name |-> "company_name"] >>] }

SignupFiles ==
    {[status |-> "unreadable"], [status |-> "invalid_json"],
     [status |-> "ok", json |-> [name |-> "signup"]]}
        \cup {[status |-> "ok", json |-> t] : t \in SignupTemplates}

Agent(ids) == [results |-> [items |-> [c \in DOMAIN ids |-> [id |-> ids[c]]]]]

\* answers of getCredentialDefinitions
CredDefResponses ==
    { [agents |-> <<>>],
      [agents |-> << Agent(<<"cd1">>) >>],
      [agents |-> << Agent(<<"cd1", "cd2">>) >>],
      [agents |-> << Agent(<<"cd2">>), Agent(<<>>), Agent(<<"cd1">>) >>] }

SignupInit ==
    /\ helper \in {TysSignup, IftSignup}
    /\ IF helper = TysSignup
       THEN /\ proof_schema_file \in [proof_schema_path : SignupFiles]
            /\ args = [opts |-> NoOpts]
       ELSE /\ proof_schema_file \in
                 [proof_schema_path_tys : SignupFiles, proof_schema_path_lei : SignupFiles]
            /\ args \in [opts : {NoOpts, [uselei |-> TRUE], [uselei |-> FALSE]}]
    /\ proof_schema_template = <<>>
    /\ now = 9
    /\ issued = <<>>
    /\ call = NoCall
    /\ SignupIdle
    /\ OthersIdle
    /\ ResponderIdle

loginVars == <<proof_schema_template, now>>

\* getProofSchema(args.opts) is called
SignupCall ==
    /\ pc = 0
    /\ pc' = 1
    /\ UNCHANGED <<helper, proof_schema_file, args, call, issued, loginVars, responderVars, otherVars,
                   PROOF_FORMAT, cred_defs, connections, trace, picked>>

AtStep(op) == pc > 0 /\ pc < Finished /\ Step.op = op

Returns(result) == call' = [op |-> "getProofSchema", result |-> result]

\* the promise around fs.readFile
ReadFile ==
    /\ AtStep("readFile")
    /\ \/ /\ SchemaFileRead.status = "unreadable"
          /\ Returns([ok |-> FALSE, settled |-> TRUE, error |-> "readFile error"])
          /\ pc' = Finished
          /\ UNCHANGED PROOF_FORMAT
       \/ /\ SchemaFileRead.status = "invalid_json"
          \* JSON.parse throws inside the readFile callback: the promise never settles
          /\ Returns([ok |-> FALSE, settled |-> FALSE, error |-> "SyntaxError"])
          /\ pc' = Finished
          /\ UNCHANGED PROOF_FORMAT
       \/ /\ SchemaFileRead.status = "ok"
          /\ InvalidProofSchema(SchemaFileRead.json)
          /\ Returns([ok |-> FALSE, settled |-> TRUE, error |-> "Invalid proof schema"])
          /\ pc' = Finished
          /\ UNCHANGED PROOF_FORMAT
       \/ /\ SchemaFileRead.status = "ok"
          /\ ~InvalidProofSchema(SchemaFileRead.json)
          /\ PROOF_FORMAT' = <<SchemaFileRead.json>>
          /\ pc' = pc + 1
          /\ UNCHANGED call
    /\ UNCHANGED <<helper, proof_schema_file, args, issued, loginVars, responderVars, otherVars,
                   cred_defs, connections, trace, picked>>

\* what a failed step of setup() makes of the call
SetupFails(error) ==
    LET next == SetupThrows(pc, error)
    IN  /\ pc' = next.pc
        /\ IF next.thrown = <<>> THEN UNCHANGED call
           ELSE Returns([ok |-> FALSE, settled |-> TRUE, error |-> next.thrown[1]])

\* agent.createConnection(to, {tag: 'true'}) in setup()
CreateConnection ==
    /\ AtStep("createConnection")
    /\ \/ /\ connections' = Append(connections,
                 [id |-> Len(connections) + 1, to |-> Step.issuer,
                  properties |-> TagOf[Step.issuer], state |-> "outbound_offer"])
          /\ trace' = Append(trace, [op |-> Step.op, issuer |-> Step.issuer, ok |-> TRUE])
          /\ pc' = pc + 1
          /\ UNCHANGED call
       \/ /\ UNCHANGED connections
          /\ trace' = Append(trace, [op |-> Step.op, issuer |-> Step.issuer, ok |-> FALSE])
          /\ SetupFails("createConnection failed")
    /\ UNCHANGED <<helper, proof_schema_file, args, issued, loginVars, responderVars, otherVars,
                   PROOF_FORMAT, cred_defs, picked>>

\* agent.waitForConnection(connection_offer.id) in setup(): the offer is the
\* connection created last
WaitForConnection ==
    /\ AtStep("waitForConnection")
    /\ \/ /\ connections # <<>>
          /\ connections' = [connections EXCEPT ![Len(connections)].state = "connected"]
          /\ trace' = Append(trace, [op |-> Step.op, issuer |-> Step.issuer, ok |-> TRUE])
          /\ pc' = pc + 1
          /\ UNCHANGED call
       \/ /\ UNCHANGED connections
          /\ trace' = Append(trace, [op |-> Step.op, issuer |-> Step.issuer, ok |-> FALSE])
          /\ SetupFails("waitForConnection failed")
    /\ UNCHANGED <<helper, proof_schema_file, args, issued, loginVars, responderVars, otherVars,
                   PROOF_FORMAT, cred_defs, picked>>

\* agent.getCredentialDefinitions(null, {tag: 'true'})
GetCredentialDefinitions ==
    /\ AtStep("getCredentialDefinitions")
    /\ \/ /\ \E response \in CredDefResponses :
                cred_defs' = [cred_defs EXCEPT ![Step.issuer] = <<response>>]
          /\ trace' = Append(trace, [op |-> Step.op, issuer |-> Step.issuer, ok |-> TRUE])
          /\ pc' = pc + 1
          /\ UNCHANGED call
       \/ /\ UNCHANGED cred_defs
          /\ trace' = Append(trace, [op |-> Step.op, issuer |-> Step.issuer, ok |-> FALSE])
          /\ pc' = Finished
          /\ Returns([ok |-> FALSE, settled |-> TRUE,
                      error |-> "getCredentialDefinitions failed"])
    /\ UNCHANGED <<helper, proof_schema_file, args, issued, loginVars, responderVars, otherVars,
                   PROOF_FORMAT, connections, picked>>

\* the proof request is put together and returned
BuildProofRequest ==
    /\ AtStep("build")
    /\ LET requested_attributes == RequestedAttributes(PROOF_FORMAT[1])
           proof_request ==
               [name |-> PROOF_FORMAT[1].name,
                version |-> StampVersion(PROOF_FORMAT[1].version, now),
                requested_attributes |-> BuildLoop(requested_attributes, 1, EmptyObject)]
       IN  /\ picked' = [k \in DOMAIN requested_attributes |->
                            [key |-> requested_attributes[k].key,
                             restrictions |-> RestrictionsFor(requested_attributes[k].key)]]
           /\ Returns([ok |-> TRUE, settled |-> TRUE, value |-> proof_request])
           /\ issued' = Append(issued, proof_request.version)
    /\ pc' = Finished
    /\ UNCHANGED <<helper, proof_schema_file, args, loginVars, responderVars, otherVars,
                   PROOF_FORMAT, cred_defs, connections, trace>>

SignupNext ==
    \/ SignupCall
    \/ ReadFile
    \/ CreateConnection
    \/ WaitForConnection
    \/ GetCredentialDefinitions
    \/ BuildProofRequest

SpecSignup == SignupInit /\ [][SignupNext]_vars

-----------------------------------------------------------------------------
(* AccountSignupHelper.getProofSchema: claims *)

\* sub occurs in s
Contains(s, sub) ==
    \E i \in 1..(Len(s) - Len(sub) + 1) : SubSeq(s, i, i + Len(sub) - 1) = sub

\* the issuer markers of the helper at work, with the issuer each stands for
Markers ==
    IF helper = TysSignup
    THEN { [marker |-> MarkerUnderscoreLei, issuer |-> "lei"],
           [marker |-> MarkerUnderscoreGleif, issuer |-> "gleif"] }
    ELSE { [marker |-> MarkerTys, issuer |-> "tys"],
           [marker |-> MarkerIft, issuer |-> "iftfounder"],
           [marker |-> MarkerLei, issuer |-> "lei"] }

\* the issuers whose marker the key contains
MarkedIssuers(key) ==
    {m.issuer : m \in {x \in Markers : Contains(ToLowerCase(key), x.marker)}}

\* getProofSchema has returned a proof request
Built ==
    /\ helper \in {TysSignup, IftSignup}
    /\ pc = Finished
    /\ call.op = "getProofSchema"
    /\ call.result.ok

TemplateEntries == RequestedAttributes(PROOF_FORMAT[1])

\* the entry of the returned proof request for the template entry at place k
ReturnedEntry(k) == call.result.value.requested_attributes[TemplateEntries[k].name]

\* C7 as stated: in the proof request AccountSignupHelper.getProofSchema
\* returns, the attribute of each template key that contains an issuer marker
\* carries exactly the restriction list built from the lookup tagged for an
\* issuer whose marker the key contains, and the attribute of each key without
\* a known marker carries an empty restriction list.
C7_AsStated ==
    Built =>
        \A k \in DOMAIN TemplateEntries :
            IF MarkedIssuers(TemplateEntries[k].key) = {}
            THEN ReturnedEntry(k).restrictions = <<>>
            ELSE \E i \in MarkedIssuers(TemplateEntries[k].key) :
                     ReturnedEntry(k).restrictions = Restrictions(i)

\* the place of the last template entry that declares the attribute name
LastPlaceOf(name) ==
    CHOOSE k \in DOMAIN TemplateEntries :
        /\ TemplateEntries[k].name = name
        /\ \A j \in DOMAIN TemplateEntries : TemplateEntries[j].name = name => j <= k

\* C7 (amended): the proof request AccountSignupHelper.getProofSchema returns
\* holds one attribute for each attribute name of the template; it carries
\* exactly the restriction list built from the lookup tagged for an issuer
\* whose marker is contained in the last template key that declares the name,
\* and an empty restriction list when that key contains no known marker.
C7_RestrictionsByIssuer ==
    Built =>
        LET returned == call.result.value.requested_attributes
        IN  /\ DOMAIN returned = {TemplateEntries[k].name : k \in DOMAIN TemplateEntries}
            /\ \A name \in DOMAIN returned :
                  LET key == TemplateEntries[LastPlaceOf(name)].key
                  IN  /\ returned[name].name = name
                      /\ IF MarkedIssuers(key) = {}
                         THEN returned[name].restrictions = <<>>
                         ELSE \E i \in MarkedIssuers(key) :
                                  /\ cred_defs[i] # <<>>
                                  /\ returned[name].restrictions = Restrictions(i)

C7_Witness ==
    /\ Built
    /\ helper = IftSignup
    /\ Restrictions("tys") # <<>>
    /\ Restrictions("iftfounder") # <<>>
    /\ Restrictions("tys") # Restrictions("iftfounder")
    /\ \E a, b \in DOMAIN TemplateEntries :
          /\ a < b
          /\ TemplateEntries[a].name = TemplateEntries[b].name
          /\ MarkedIssuers(TemplateEntries[a].key) = {"tys"}
          /\ MarkedIssuers(TemplateEntries[b].key) = {"iftfounder"}
          /\ ReturnedEntry(a).restrictions = Restrictions("iftfounder")

\* the issuer whose marker comes first in the source among those the key contains
FirstInSource(key) ==
    IF helper = TysSignup
    THEN IF "lei" \in MarkedIssuers(key) THEN "lei" ELSE "gleif"
    ELSE IF "tys" \in MarkedIssuers(key) THEN "tys"
         ELSE IF "iftfounder" \in MarkedIssuers(key) THEN "iftfounder"
         ELSE "lei"

\* C8: for a template key that contains more than one issuer marker (the key
\* taken in lower case), getProofSchema picks the restrictions of the marker
\* that comes first in the source: tys before ift before lei in ift-network,
\* _lei before _gleif in tys.
C8_FirstMarkerWins ==
    Built =>
        \A k \in DOMAIN picked :
            Cardinality(MarkedIssuers(picked[k].key)) > 1
                => picked[k].restrictions = Restrictions(FirstInSource(picked[k].key))

C8_Witness ==
    /\ Built
    /\ helper = IftSignup
    /\ \E k \in DOMAIN picked :
          /\ MarkedIssuers(picked[k].key) = {"tys", "iftfounder"}
          /\ Restrictions("tys") # Restrictions("iftfounder")
          /\ Restrictions("tys") # <<>>
          /\ picked[k].restrictions = Restrictions("tys")
    /\ \E k \in DOMAIN picked :
          /\ MarkedIssuers(picked[k].key) = {"iftfounder", "lei"}
          /\ Restrictions("lei") # Restrictions("iftfounder")
          /\ picked[k].restrictions = Restrictions("iftfounder")

\* a step of setup() has failed
SetupFailed ==
    \E i \in DOMAIN trace :
        /\ trace[i].op \in {"createConnection", "waitForConnection"}
        /\ ~trace[i].ok

\* C9: once createConnection or waitForConnection has failed for one trusted
\* issuer during AccountSignupHelper.getProofSchema, the call has failed and
\* no proof request is returned.
C9_SetupFailureFails ==
    SetupFailed =>
        /\ pc = Finished
        /\ call.op = "getProofSchema"
        /\ ~call.result.ok
        /\ issued = <<>>

C9_Witness ==
    /\ SetupFailed
    /\ helper = TysSignup
    /\ cred_defs["lei"] # <<>>
    /\ Len(trace) > 3
    /\ trace[Len(trace)] = [op |-> "waitForConnection", issuer |-> "gleif", ok |-> FALSE]
    /\ pc = Finished
    /\ ~call.result.ok

-----------------------------------------------------------------------------
(* AccountSignupHelper.checkProof of ift-network *)

\* !verification || !verification.id || !verification.info || !verification.info.attributes
InvalidVerification(verification) ==
    IF "id" \notin DOMAIN verification THEN TRUE
    ELSE IF ~Truthy(verification.id) THEN TRUE
    ELSE ~HasAttributes(verification)

\* for (const i in proof_attributes)
\*     if (attr.cred_def_id) attributes[attr.name] = attr.value
\* the object `attributes` after the loop has run from index i on
RECURSIVE VerifiedAttributes(_, _, _)
VerifiedAttributes(proof_attributes, i, attributes) ==
    IF i > Len(proof_attributes) THEN attributes
    ELSE LET attr == proof_attributes[i]
         IN  IF Truthy(attr.cred_def_id)
             THEN VerifiedAttributes(proof_attributes, i + 1,
                      [n \in DOMAIN attributes \cup {attr.name} |->
                           IF n = attr.name THEN attr.value ELSE attributes[n]])
             ELSE VerifiedAttributes(proof_attributes, i + 1, attributes)

\* !attributes[name]
Missing(attributes, name) ==
    IF name \in DOMAIN attributes THEN ~Truthy(attributes[name]) ELSE TRUE

\* the address test
MissingAddress(attributes) ==
    \E name \in {"address_line_1", "address_line_2", "state", "zip_code", "city", "country"} :
        Missing(attributes, name)

\* a mutation of MissingIdentity: the TYS credential demanded whatever the LEI
MissingIdentityTysOnly(attributes) ==
    \E name \in {"tys_identifier", "trust_value", "member_since"} : Missing(attributes, name)

\* (!attributes.lei) && (!attributes.tys_identifier || !attributes.trust_value
\*                       || !attributes.member_since)
MissingIdentity(attributes) ==
    /\ Missing(attributes, "lei")
    /\ \E name \in {"tys_identifier", "trust_value", "member_since"} :
          Missing(attributes, name)

Refused(error) == [ok |-> FALSE, error |-> error]

\* a mutation of IftCheckProof: the identity test made before the supplier tests
IftCheckProofIdentityFirst(verification) ==
    IF InvalidVerification(verification) THEN Refused("Invalid verification")
    ELSE LET attributes ==
                 VerifiedAttributes(verification.info.attributes, 1, EmptyObject)
         IN  IF MissingIdentity(attributes)
             THEN Refused("A verified attestation of the required TYS identifier or LEI was not provided")
             ELSE IF Missing(attributes, "company_name")
             THEN Refused("A verified attestations of company name was not provided")
             ELSE IF MissingAddress(attributes)
             THEN Refused("A verified attestation of address was not provided")
             ELSE IF Missing(attributes, "supplier_identifier")
             THEN Refused("A verified attestation of a supplier identifier was not provided")
             ELSE IF Missing(attributes, "supplier_rating")
             THEN Refused("A verified attestation of supplier rating was not provided")
             ELSE IF Missing(attributes, "supplier_since")
             THEN Refused("A verified attestation of supplier since was not provided")
             ELSE [ok |-> TRUE, value |-> verification]

\* ift-network AccountSignupHelper.checkProof
IftCheckProof(verification) ==
    IF InvalidVerification(verification) THEN Refused("Invalid verification")
    ELSE LET attributes ==
                 VerifiedAttributes(verification.info.attributes, 1, EmptyObject)
         IN  IF Missing(attributes, "company_name")
             THEN Refused("A verified attestations of company name was not provided")
             ELSE IF MissingAddress(attributes)
             THEN Refused("A verified attestation of address was not provided")
             ELSE IF Missing(attributes, "supplier_identifier")
             THEN Refused("A verified attestation of a supplier identifier was not provided")
             ELSE IF Missing(attributes, "supplier_rating")
             THEN Refused("A verified attestation of supplier rating was not provided")
             ELSE IF Missing(attributes, "supplier_since")
             THEN Refused("A verified attestation of supplier since was not provided")
             ELSE IF MissingIdentity(attributes)
             THEN Refused("A verified attestation of the required TYS identifier or LEI was not provided")
             ELSE [ok |-> TRUE, value |-> verification]

-----------------------------------------------------------------------------
(* Inputs of the signup checkProof *)

MaxMissing == 3     \* fields left out of one verification

\* the fields the signup flow reads, in the order the issuers deliver them
FieldNames ==
    << "company_name", "address_line_1", "address_line_2", "city", "state",
       "zip_code", "country", "supplier_identifier", "supplier_rating",
       "supplier_since", "lei", "tys_identifier", "trust_value", "member_since" >>

Fields == {FieldNames[i] : i \in DOMAIN FieldNames}

\* the sequence s without the entries whose name is in `omitted`
RECURSIVE Without(_, _)
Without(s, omitted) ==
    IF s = <<>> THEN <<>>
    ELSE IF Head(s) \in omitted THEN Without(Tail(s), omitted)
    ELSE <<Head(s)>> \o Without(Tail(s), omitted)

\* a proof in which a credential backs every field but the omitted ones
BaseAttributes(omitted) ==
    LET names == Without(FieldNames, omitted)
    IN  [i \in DOMAIN names |-> [name |-> names[i], value |-> "v", cred_def_id |-> "cd1"]]

\* one more attribute: verified or self-attested, with a value or an empty one
ExtraAttributes ==
    [name : Fields, value : {"w", ""}, cred_def_id : {"cd2", Undefined}]

Omissions == {o \in SUBSET Fields : Cardinality(o) <= MaxMissing}

\* where the one more attribute goes: nowhere, before the others, after them
ExtraChoices ==
    {<<>>} \cup {<<"front", x>> : x \in ExtraAttributes}
           \cup {<<"back", x>> : x \in ExtraAttributes}

SignupAttributes(omitted, extra) ==
    IF extra = <<>> THEN BaseAttributes(omitted)
    ELSE IF extra[1] = "front" THEN <<extra[2]>> \o BaseAttributes(omitted)
    ELSE BaseAttributes(omitted) \o <<extra[2]>>

\* verifications without an id, with an empty id, without attributes
MalformedVerifications ==
    {[id |-> "ver1"], [info |-> [attributes |-> BaseAttributes({})]],
     [id |-> "", info |-> [attributes |-> BaseAttributes({})]]}

IftCheckInit ==
    /\ helper = IftSignup
    /\ proof_schema_file = [status |-> "unreadable"]
    /\ proof_schema_template = <<>>
    /\ now = 9
    /\ issued = <<>>
    /\ \/ \E omitted \in Omissions, extra \in ExtraChoices :
             args = [verification |->
                        [id |-> "ver1",
                         info |-> [attributes |-> SignupAttributes(omitted, extra)]]]
       \/ args \in [verification : MalformedVerifications]
    /\ call = NoCall
    /\ SignupIdle
    /\ OthersIdle
    /\ ResponderIdle

\* checkProof(args.verification) on the ift-network helper
IftSignupCheckProof ==
    /\ helper = IftSignup
    /\ call = NoCall
    /\ call' = [op |-> "checkProof", result |-> IftCheckProof(args.verification)]
    /\ UNCHANGED <<helper, proof_schema_file, args, issued, loginVars, responderVars, otherVars>>
    /\ UNCHANGED signupVars

IftCheckNext == IftSignupCheckProof

SpecIftCheck == IftCheckInit /\ [][IftCheckNext]_vars

-----------------------------------------------------------------------------
(* ift-network AccountSignupHelper.checkProof: claims *)

SignupChecked ==
    /\ call.op = "checkProof"
    /\ helper = IftSignup
    /\ ~InvalidVerification(args.verification)

\* an attribute of that name carries a cred_def_id
Present(name) ==
    \E i \in DOMAIN args.verification.info.attributes :
        /\ args.verification.info.attributes[i].name = name
        /\ args.verification.info.attributes[i].cred_def_id # Undefined

\* the last attribute of that name that carries a cred_def_id has a value that
\* is not empty
PresentWithValue(name) ==
    \E i \in DOMAIN args.verification.info.attributes :
        /\ args.verification.info.attributes[i].name = name
        /\ args.verification.info.attributes[i].cred_def_id # Undefined
        /\ args.verification.info.attributes[i].value # ""
        /\ \A j \in DOMAIN args.verification.info.attributes :
              ( /\ args.verification.info.attributes[j].name = name
                /\ args.verification.info.attributes[j].cred_def_id # Undefined )
              => j <= i

SupplierFields ==
    {"company_name", "address_line_1", "address_line_2", "city", "state", "zip_code",
     "country", "supplier_identifier", "supplier_rating", "supplier_since"}

TysFields == {"tys_identifier", "trust_value", "member_since"}

\* C10 as stated: the ift-network checkProof returns the verification exactly
\* when, counting only attributes that carry a cred_def_id, the ten supplier
\* fields are all present and either lei is present or tys_identifier,
\* trust_value and member_since are all present; otherwise it rejects.
C10_AsStated ==
    SignupChecked =>
        ( call.result.ok <=>
            /\ \A name \in SupplierFields : Present(name)
            /\ Present("lei") \/ \A name \in TysFields : Present(name) )

\* C10 (amended): the ift-network checkProof returns the verification exactly
\* when the verification has an id and an attribute list and, counting for
\* each name only the last attribute that carries a cred_def_id, the ten
\* supplier fields are all present with a value that is not empty and either
\* lei is, or tys_identifier, trust_value and member_since all are; otherwise
\* it rejects.
C10_AcceptsExactlyWhenVerified ==
    (call.op = "checkProof" /\ helper = IftSignup) =>
        /\ call.result.ok <=>
              /\ ~InvalidVerification(args.verification)
              /\ \A name \in SupplierFields : PresentWithValue(name)
              /\ PresentWithValue("lei") \/ \A name \in TysFields : PresentWithValue(name)
        /\ call.result.ok => call.result.value = args.verification

\* accepted on the LEI alone, with a self-attested attribute in the proof
C10_Witness ==
    /\ SignupChecked
    /\ call.result.ok
    /\ ~Present("tys_identifier")
    /\ ~Present("trust_value")
    /\ \E i \in DOMAIN args.verification.info.attributes :
          args.verification.info.attributes[i].cred_def_id = Undefined

-----------------------------------------------------------------------------
(* AccountSignupHelper.checkProof of tys *)

\* for (const i in proof_attributes) attributes[attr.name] = attr.value
\* the loop of proofToUserRecord, which takes self-attested attributes too:
\* the object `attributes` after the loop has run from index i on
RECURSIVE AllAttributes(_, _, _)
AllAttributes(proof_attributes, i, attributes) ==
    IF i > Len(proof_attributes) THEN attributes
    ELSE LET attr == proof_attributes[i]
         IN  AllAttributes(proof_attributes, i + 1,
                 [n \in DOMAIN attributes \cup {attr.name} |->
                      IF n = attr.name THEN attr.value ELSE attributes[n]])

\* a mutation of TysCheckProof: the attributes gathered as proofToUserRecord does
TysCheckProofAnyAttribute(verification) ==
    IF InvalidVerification(verification) THEN Refused("Invalid verification")
    ELSE LET attributes == AllAttributes(verification.info.attributes, 1, EmptyObject)
         IN  IF Missing(attributes, "lei")
             THEN Refused("Attestations of LEI was not provided")
             ELSE [ok |-> TRUE, value |-> verification]

\* tys AccountSignupHelper.checkProof
TysCheckProof(verification) ==
    IF InvalidVerification(verification) THEN Refused("Invalid verification")
    ELSE LET attributes ==
                 VerifiedAttributes(verification.info.attributes, 1, EmptyObject)
         IN  IF Missing(attributes, "lei")
             THEN Refused("Attestations of LEI was not provided")
             ELSE [ok |-> TRUE, value |-> verification]

SignupCheckInit ==
    /\ helper \in {TysSignup, IftSignup}
    /\ proof_schema_file = [status |-> "unreadable"]
    /\ proof_schema_template = <<>>
    /\ now = 9
    /\ issued = <<>>
    /\ \/ \E omitted \in Omissions, extra \in ExtraChoices :
             args = [verification |->
                        [id |-> "ver1",
                         info |-> [attributes |-> SignupAttributes(omitted, extra)]]]
       \/ args \in [verification : MalformedVerifications]
    /\ call = NoCall
    /\ SignupIdle
    /\ OthersIdle
    /\ ResponderIdle

\* checkProof(args.verification) on the tys helper
TysSignupCheckProof ==
    /\ helper = TysSignup
    /\ call = NoCall
    /\ call' = [op |-> "checkProof", result |-> TysCheckProof(args.verification)]
    /\ UNCHANGED <<helper, proof_schema_file, args, issued, loginVars, responderVars, otherVars>>
    /\ UNCHANGED signupVars

SignupCheckNext ==
    \/ IftSignupCheckProof
    \/ TysSignupCheckProof

SpecSignupCheck == SignupCheckInit /\ [][SignupCheckNext]_vars

-----------------------------------------------------------------------------
(* AccountSignupHelper.checkProof of both helpers: claims *)

\* some attribute has that name
Named(name) ==
    \E i \in DOMAIN args.verification.info.attributes :
        args.verification.info.attributes[i].name = name

TysChecked ==
    /\ call.op = "checkProof"
    /\ helper = TysSignup
    /\ ~InvalidVerification(args.verification)

\* C11: the tys AccountSignupHelper.checkProof accepts a verification only if
\* it holds an attribute named lei that carries a cred_def_id; a verification
\* whose lei attributes are all self-attested is rejected.
C11_LeiMustBeVerified ==
    TysChecked =>
        /\ call.result.ok => Present("lei")
        /\ (Named("lei") /\ ~Present("lei")) => ~call.result.ok

\* a self-attested lei, and no other, has been rejected
C11_Witness ==
    /\ TysChecked
    /\ Named("lei")
    /\ ~Present("lei")
    /\ call.result = Refused("Attestations of LEI was not provided")

\* the tests of the helper at work, in the order of the source: the fields each
\* one asks for and the error it throws
CheckOrder ==
    IF helper = TysSignup
    THEN << [fields |-> {"lei"}, error |-> "Attestations of LEI was not provided"] >>
    ELSE << [fields |-> {"company_name"},
             error |-> "A verified attestations of company name was not provided"],
            [fields |-> {"address_line_1", "address_line_2", "state", "zip_code",
                         "city", "country"},
             error |-> "A verified attestation of address was not provided"],
            [fields |-> {"supplier_identifier"},
             error |-> "A verified attestation of a supplier identifier was not provided"],
            [fields |-> {"supplier_rating"},
             error |-> "A verified attestation of supplier rating was not provided"],
            [fields |-> {"supplier_since"},
             error |-> "A verified attestation of supplier since was not provided"],
            [fields |-> {"lei"} \cup TysFields,
             error |-> "A verified attestation of the required TYS identifier or LEI was not provided"] >>

\* the proof does not provide what the test at place g asks for
NotProvided(g) ==
    IF helper = IftSignup /\ g = Len(CheckOrder)
    THEN /\ ~PresentWithValue("lei")
         /\ \E name \in TysFields : ~PresentWithValue(name)
    ELSE \E name \in CheckOrder[g].fields : ~PresentWithValue(name)

\* C12: when the signup checkProof rejects a verification for missing fields,
\* the error it raises is the one of the first test in the check order
\* (company_name, address, supplier_identifier, supplier_rating,
\* supplier_since, then the LEI/TYS identity; lei alone in tys) whose fields
\* are not provided, however many fields are missing.
C12_FirstMissingNamed ==
    ( /\ call.op = "checkProof"
      /\ ~InvalidVerification(args.verification)
      /\ ~call.result.ok )
    => \E g \in DOMAIN CheckOrder :
           /\ NotProvided(g)
           /\ \A h \in 1..(g - 1) : ~NotProvided(h)
           /\ call.result.error = CheckOrder[g].error

\* supplier_rating and the identity are both missing: supplier_rating is named
C12_Witness ==
    /\ call.op = "checkProof"
    /\ helper = IftSignup
    /\ ~InvalidVerification(args.verification)
    /\ NotProvided(4)
    /\ NotProvided(6)
    /\ ~NotProvided(1) /\ ~NotProvided(2) /\ ~NotProvided(3)
    /\ call.result.error = CheckOrder[4].error

-----------------------------------------------------------------------------
(* LoginHelper.checkProof: how names are matched *)

\* a name in lower case and without its spaces
Normalized(name) == RemoveSpaces(ToLowerCase(name))

\* the places of the verification attributes whose name, normalized, is the
\* normalized name of schema_attr
SameNamePlaces(schema_attr) ==
    {i \in DOMAIN GivenAttributes :
        Normalized(GivenAttributes[i].name) = Normalized(schema_attr.name)}

\* the places of the verification attributes whose name, as given, is the
\* normalized name of schema_attr
ExactNamePlaces(schema_attr) ==
    {i \in DOMAIN GivenAttributes :
        GivenAttributes[i].name = Normalized(schema_attr.name)}

\* the attribute at the last place of a set of places that is not empty
LastOf(places) == GivenAttributes[CHOOSE i \in places : \A j \in places : j <= i]

\* the template attribute is satisfied by the verification attributes at `places`
SatisfiedAt(schema_attr, places) ==
    /\ places # {}
    /\ DeclaresRestrictions(schema_attr)
          => \A i \in places : GivenAttributes[i].cred_def_id # Undefined
    /\ LastOf(places).value = StoredValue(args.user_record, schema_attr.name)

\* C13 as stated: checkProof takes a verification attribute for a template
\* attribute when their names are the same after normalization (lower case,
\* spaces removed) of both of them, so it accepts exactly when every template
\* attribute is satisfied by the verification attributes of the same
\* normalized name.
C13_AsStated ==
    C4_Domain =>
        ( call.result.ok <=>
            \A k \in DOMAIN DeclaredAttributes :
                SatisfiedAt(DeclaredAttributes[k], SameNamePlaces(DeclaredAttributes[k])) )

\* C13 (amended): checkProof takes a verification attribute for a template
\* attribute when the verification attribute's name, as given, equals the
\* template attribute's name in lower case with its spaces removed; it accepts
\* exactly when every template attribute is satisfied by the verification
\* attributes so named.
C13_NameMatchedAgainstNormalizedTemplate ==
    C4_Domain =>
        ( call.result.ok <=>
            \A k \in DOMAIN DeclaredAttributes :
                SatisfiedAt(DeclaredAttributes[k], ExactNamePlaces(DeclaredAttributes[k])) )

\* the template's "F n" is matched by the verification's "fn", while another
\* attribute of the verification, named "F n", is passed over although its
\* value is not the stored one
C13_Witness ==
    /\ C4_Domain
    /\ call.result.ok
    /\ \E k \in DOMAIN DeclaredAttributes :
          /\ DeclaredAttributes[k].name = FullName
          /\ \E i, j \in DOMAIN GivenAttributes :
                /\ GivenAttributes[i].name = <<"f","n">>
                /\ GivenAttributes[j].name = FullName
                /\ GivenAttributes[j].value
                      # StoredValue(args.user_record, FullName)

-----------------------------------------------------------------------------
(* ConnectionResponder *)

(***************************************************************************)
(* start() hands async.until the test () => this.stopped, the iteratee and *)
(* the final callback.  async.until calls the test before each iteration   *)
(* and calls the final callback once, when the test answers true or the    *)
(* iteratee fails.  A loop is a record: `at` is the call whose answer the  *)
(* iteratee awaits ("wait": the timer), or "exited"; `offer` is            *)
(* offers[0].id (0: none); `calls` are the agent calls answered in this    *)
(* iteration; `since` is the last call of start() or stop() made before    *)
(* the iteration began and the number of loops there were then.  A loop    *)
(* that has exited keeps nothing of its last iteration.                    *)
(***************************************************************************)

MaxLoops == 2       \* calls of start()

MaxOffers == 2      \* connection offers that reach the agent

\* the iteratee begins: agent.getConnections({state: 'inbound_offer'}) is called
NewIteration(last_call, n) ==
    [at |-> "getConnections", offer |-> 0, calls |-> <<>>, since |-> <<last_call, n>>,
     delay |-> NoDelay]

\* async.until has called the final callback
Exited ==
    [at |-> "exited", offer |-> 0, calls |-> <<>>, since |-> <<"none", 0>>,
     delay |-> NoDelay]

\* the connections getConnections({state: 'inbound_offer'}) finds, as the agent lists them
InboundOffers(conns) == SelectSeq(conns, LAMBDA c : c.state = "inbound_offer")

\* the agent has a connection of that id
Exists(conns, id) == \E i \in DOMAIN conns : conns[i].id = id

\* the answer to acceptConnection(id) when it succeeds
Accepted(conns, id) ==
    [i \in DOMAIN conns |->
        IF conns[i].id = id THEN [conns[i] EXCEPT !.state = "connected"] ELSE conns[i]]

\* the agent's connections once deleteConnection(id) has succeeded
Deleted(conns, id) == SelectSeq(conns, LAMBDA c : c.id # id)

\* return new Promise(resolve => setTimeout(resolve, this.interval))
Waiting(loop, call_made) ==
    [loop EXCEPT !.at = "wait", !.calls = Append(loop.calls, call_made),
                 !.delay = interval]

\* a mutation of AfterFailedGetConnections: the error leaves the iteratee, and
\* async.until ends the loop with the final callback
AfterFailedGetConnectionsUncaught(loop, call_made) == Exited

\* catch (error) { logger.error(`Failed to respond to connection requests`) }
AfterFailedGetConnections(loop, call_made) == Waiting(loop, call_made)

\* a mutation of PickOffer: the last offer taken
PickOfferLast(offers) == offers[Len(offers)]

\* const offer = offers[0]
PickOffer(offers) == offers[1]

ResponderInit ==
    /\ helper = "ConnectionResponder"
    /\ proof_schema_file = [status |-> "unreadable"]
    /\ proof_schema_template = <<>>
    /\ now = 9
    /\ issued = <<>>
    /\ args = NoArgs
    /\ call = NoCall
    /\ SignupIdle
    /\ OthersIdle
    /\ stopped = TRUE
    /\ interval = Number(DefaultInterval)
    /\ loops = <<>>
    /\ offered = 0

responderFrame ==
    <<helper, proof_schema_file, proof_schema_template, now, issued, args,
      pc, PROOF_FORMAT, cred_defs, trace, picked, interval, otherVars>>

\* start(): the flag is cleared, the test answers false and the iteratee begins
Start ==
    /\ Len(loops) < MaxLoops
    /\ stopped' = FALSE
    /\ loops' = Append(loops, NewIteration("start", Len(loops) + 1))
    /\ call' = [op |-> "start"]
    /\ UNCHANGED <<responderFrame, connections, offered>>

\* stop()
Stop ==
    /\ stopped' = TRUE
    /\ call' = [op |-> "stop"]
    /\ UNCHANGED <<responderFrame, connections, loops, offered>>

\* another agent offers a connection
OfferArrives ==
    /\ offered < MaxOffers
    /\ offered' = offered + 1
    /\ connections' = Append(connections,
           [id |-> offered + 1, remote |-> [name |-> "peer"], state |-> "inbound_offer"])
    /\ UNCHANGED <<responderFrame, call, stopped, loops>>

\* agent.getConnections answers, or fails
GetConnectionsAnswers(l) ==
    /\ l \in DOMAIN loops
    /\ loops[l].at = "getConnections"
    /\ \/ LET offers == InboundOffers(connections)
              call_made == [op |-> "getConnections", id |-> 0, ok |-> TRUE]
          IN  loops' = [loops EXCEPT ![l] =
                  IF Len(offers) > 0
                  THEN [@ EXCEPT !.at = "acceptConnection",
                                 !.offer = PickOffer(offers).id,
                                 !.calls = Append(@, call_made)]
                  ELSE Waiting(@, call_made)]
       \/ loops' = [loops EXCEPT ![l] = AfterFailedGetConnections(@,
                        [op |-> "getConnections", id |-> 0, ok |-> FALSE])]
    /\ UNCHANGED <<responderFrame, call, stopped, connections, offered>>

\* agent.acceptConnection(offer.id) answers, or fails: then
\* agent.deleteConnection(offer.id) is called
AcceptConnectionAnswers(l) ==
    /\ l \in DOMAIN loops
    /\ loops[l].at = "acceptConnection"
    /\ \/ /\ \E i \in DOMAIN connections :
                /\ connections[i].id = loops[l].offer
                /\ connections[i].state = "inbound_offer"
          /\ connections' = Accepted(connections, loops[l].offer)
          /\ loops' = [loops EXCEPT ![l] = Waiting(@,
                          [op |-> "acceptConnection", id |-> loops[l].offer, ok |-> TRUE])]
       \/ /\ UNCHANGED connections
          /\ loops' = [loops EXCEPT ![l] =
                          [@ EXCEPT !.at = "deleteConnection",
                                    !.calls = Append(@, [op |-> "acceptConnection",
                                                         id |-> loops[l].offer, ok |-> FALSE])]]
    /\ UNCHANGED <<responderFrame, call, stopped, offered>>

\* agent.deleteConnection(offer.id) answers, or fails
DeleteConnectionAnswers(l) ==
    /\ l \in DOMAIN loops
    /\ loops[l].at = "deleteConnection"
    /\ \/ /\ Exists(connections, loops[l].offer)
          /\ connections' = Deleted(connections, loops[l].offer)
          /\ loops' = [loops EXCEPT ![l] = Waiting(@,
                          [op |-> "deleteConnection", id |-> loops[l].offer, ok |-> TRUE])]
       \/ /\ UNCHANGED connections
          /\ loops' = [loops EXCEPT ![l] = Waiting(@,
                          [op |-> "deleteConnection", id |-> loops[l].offer, ok |-> FALSE])]
    /\ UNCHANGED <<responderFrame, call, stopped, offered>>

\* the timer fires and async.until calls the test: the final callback when it
\* answers true, the iteratee again when it answers false
TimerFires(l) ==
    /\ l \in DOMAIN loops
    /\ loops[l].at = "wait"
    /\ IF stopped
       THEN /\ loops' = [loops EXCEPT ![l] = Exited]
            /\ stopped' = FALSE
       ELSE /\ loops' = [loops EXCEPT ![l] = NewIteration(call.op, Len(loops))]
            /\ UNCHANGED stopped
    /\ UNCHANGED <<responderFrame, call, connections, offered>>

LoopStep(l) ==
    \/ GetConnectionsAnswers(l)
    \/ AcceptConnectionAnswers(l)
    \/ DeleteConnectionAnswers(l)
    \/ TimerFires(l)

ResponderNext ==
    \/ Start
    \/ Stop
    \/ OfferArrives
    \/ \E l \in 1..MaxLoops : LoopStep(l)

SpecResponder == ResponderInit /\ [][ResponderNext]_vars

\* start() called on a responder that has not been started before
StartOnce == loops = <<>> /\ Start

ResponderOnceNext ==
    \/ StartOnce
    \/ Stop
    \/ OfferArrives
    \/ LoopStep(1)

\* a responder started once; every call to the agent is answered and every
\* timer fires
SpecResponderOnceFair ==
    ResponderInit /\ [][ResponderOnceNext]_vars /\ WF_vars(LoopStep(1))

-----------------------------------------------------------------------------
(* ConnectionResponder: claims *)

\* the iteration of loop l has called acceptConnection
Attempted(l) ==
    \/ loops[l].at = "acceptConnection"
    \/ \E i \in DOMAIN loops[l].calls : loops[l].calls[i].op = "acceptConnection"

\* the iteration of loop l began after the stop() that is the last call of
\* start() or stop() so far
BegunAfterStop(l) == call.op = "stop" /\ loops[l].since = <<"stop", Len(loops)>>

\* C14: once stop() has been called while the polling is active, and start()
\* has not been called again, no iteration that begins after that stop()
\* makes an acceptConnection attempt.
C14_NoAcceptAfterStop ==
    \A l \in DOMAIN loops : BegunAfterStop(l) => ~Attempted(l)

\* loop l begins its call of acceptConnection in this step
AcceptBegins(l) ==
    /\ loops[l].at # "acceptConnection"
    /\ loops'[l].at = "acceptConnection"

\* loop l begins its call of deleteConnection in this step
DeleteBegins(l) ==
    /\ loops[l].at # "deleteConnection"
    /\ loops'[l].at = "deleteConnection"

\* the ids of the agent's connections
ConnectionIds(conns) == {conns[i].id : i \in DOMAIN conns}

\* what C15 says of one step of loop l
C15_Step(l) ==
    /\ AcceptBegins(l) =>
          /\ ~Attempted(l)
          /\ loops'[l].offer = InboundOffers(connections)[1].id
    /\ DeleteBegins(l) =>
          /\ loops[l].at = "acceptConnection"
          /\ loops'[l].offer = loops[l].offer
          /\ loops'[l].calls[Len(loops'[l].calls)]
                = [op |-> "acceptConnection", id |-> loops[l].offer, ok |-> FALSE]
          /\ \A i \in DOMAIN loops[l].calls : loops[l].calls[i].op # "deleteConnection"
    /\ (loops[l].at = "acceptConnection" /\ loops'[l] # loops[l]) =>
          \/ loops'[l].at = "wait" /\ connections' = Accepted(connections, loops[l].offer)
          \/ DeleteBegins(l) /\ connections' = connections
    /\ (loops[l].at = "deleteConnection" /\ loops'[l] # loops[l]) =>
          /\ loops'[l].at = "wait"
          /\ ConnectionIds(connections) \ ConnectionIds(connections') \subseteq {loops[l].offer}
    /\ (loops[l].at = "wait" /\ loops'[l] # loops[l] /\ ~stopped) =>
          loops'[l].at = "getConnections"

\* C15: in each polling iteration at most one inbound offer, the first that
\* getConnections returned, is accepted; when acceptConnection fails for it,
\* deleteConnection is called for that offer's id and no other connection is
\* deleted, and whether the deletion succeeds or fails the loop waits and
\* goes on to the next iteration.
C15_OneOfferPerIteration ==
    [][ /\ \A l \in DOMAIN loops : C15_Step(l)
        /\ (\A l \in DOMAIN loops : loops[l].at # "deleteConnection")
              => ConnectionIds(connections) \subseteq ConnectionIds(connections') ]_vars

\* two offers were waiting; the first was tried and failed, its deletion was
\* called for and failed as well, and the loop waits for its next iteration
C15_Witness ==
    \E l \in DOMAIN loops :
        /\ loops[l].at = "wait"
        /\ Len(InboundOffers(connections)) > 1
        /\ loops[l].offer = InboundOffers(connections)[1].id
        /\ loops[l].calls =
              << [op |-> "getConnections", id |-> 0, ok |-> TRUE],
                 [op |-> "acceptConnection", id |-> loops[l].offer, ok |-> FALSE],
                 [op |-> "deleteConnection", id |-> loops[l].offer, ok |-> FALSE] >>

\* a call of the iteration of loop l has failed
FailedCall(l) ==
    /\ l \in DOMAIN loops
    /\ \E i \in DOMAIN loops[l].calls : ~loops[l].calls[i].ok

\* the iteration of loop l awaits the answer to a call to the agent
InFlight(l) ==
    /\ l \in DOMAIN loops
    /\ loops[l].at \in {"getConnections", "acceptConnection", "deleteConnection"}

\* the iteration of loop l waits on its timer
AtWait(l) == l \in DOMAIN loops /\ loops[l].at = "wait"

\* an iteration of loop l has just begun
Begins(l) ==
    /\ l \in DOMAIN loops
    /\ loops[l].at = "getConnections"
    /\ loops[l].calls = <<>>

\* C16: while the responder is not stopped, an iteration in which
\* getConnections, acceptConnection or deleteConnection fails still reaches
\* its wait, and after the wait another iteration begins: every call in
\* flight leads to the wait or to a stop, and every wait, after a failure
\* too, leads to a new iteration or to a stop.
C16_FailuresDoNotEndTheLoop ==
    \A l \in 1..MaxLoops :
        /\ InFlight(l) ~> (stopped \/ AtWait(l))
        /\ (AtWait(l) /\ FailedCall(l)) ~> (stopped \/ Begins(l))

\* an iteration in which getConnections failed is at its wait, not stopped
C16_Witness ==
    /\ ~stopped
    /\ \E l \in DOMAIN loops :
          /\ loops[l].at = "wait"
          /\ loops[l].calls = << [op |-> "getConnections", id |-> 0, ok |-> FALSE] >>

\* C17: after stop() has been called and every polling loop has exited, with
\* no start() since, the responder is stopped: its flag is true.
C17_StoppedAfterExit ==
    ( /\ call.op = "stop"
      /\ loops # <<>>
      /\ \A l \in DOMAIN loops : loops[l].at = "exited" )
    => stopped = TRUE

-----------------------------------------------------------------------------
(* AccountSignupHelper.buildUserRecordFromLEI and proofToUserRecord of tys *)

(***************************************************************************)
(* A record of the registry is a nested record as the code reads it; the   *)
(* field val stands for the property `$`.  AdditionalAddressLine and       *)
(* Region are optional.  The outcome of a call is the state of the promise *)
(* it returned: resolved with a value, rejected with an error, or pending  *)
(* for good when nothing is left that could settle it.                     *)
(***************************************************************************)

MaxRecords == 2     \* records in one answer of the registry

Resolved(value) == [state |-> "resolved", value |-> value]

Rejected(error) == [state |-> "rejected", error |-> error]

\* the promise is never settled; `thrown` is what the request callback threw
Pending(thrown) == [state |-> "pending", thrown |-> thrown]

\* the value null of a resolved promise
Null == [null |-> TRUE]

\* AdditionalAddressLine && AdditionalAddressLine.length > 0
HasAdditionalLine(address) ==
    /\ "AdditionalAddressLine" \in DOMAIN address
    /\ Len(address.AdditionalAddressLine) > 0

\* a mutation of State: the Region read without the test
StateRegionOnly(address) ==
    IF "Region" \in DOMAIN address THEN address.Region.val ELSE Undefined

\* Region ? Region.$ : "-"
State(address) ==
    IF "Region" \in DOMAIN address THEN address.Region.val ELSE "-"

\* the user record built from the one record of the registry
UserRecordOf(leiInfo) ==
    LET address == leiInfo.Entity.LegalAddress
        fields == {"LEI", "company_name", "address_line_1", "city", "state",
                   "zip_code", "country"}
                      \cup (IF HasAdditionalLine(address) THEN {"address_line_2"} ELSE {})
    IN  [f \in fields |->
            CASE f = "LEI" -> leiInfo.LEI.val
              [] f = "company_name" -> leiInfo.Entity.LegalName.val
              [] f = "address_line_1" -> address.FirstAddressLine.val
              [] f = "address_line_2" -> address.AdditionalAddressLine[1].val
              [] f = "city" -> address.City.val
              [] f = "state" -> State(address)
              [] f = "zip_code" -> address.PostalCode.val
              [] f = "country" -> address.Country.val]

\* buildUserRecordFromLEI(lei_number), the registry answering `answer`
BuildUserRecordFromLEI(lei_number, answer) ==
    IF ~Truthy(lei_number) THEN Resolved(Null)
    ELSE IF answer.error
         \* httpResponse is not defined: the callback throws a ReferenceError
         THEN Pending("ReferenceError")
    ELSE IF answer.is_array /\ Len(answer.body) = 1
         THEN Resolved(UserRecordOf(answer.body[1]))
    ELSE Pending("nothing")

\* tys AccountSignupHelper.proofToUserRecord(verification)
TysProofToUserRecord(verification, answer) ==
    IF InvalidVerification(verification) THEN Rejected("Invalid verification")
    ELSE LET attributes == AllAttributes(verification.info.attributes, 1, EmptyObject)
         IN  IF Missing(attributes, "lei") THEN Rejected("Invalid verification")
             ELSE BuildUserRecordFromLEI(attributes.lei, answer)

\* records of the registry
LegalAddresses ==
    LET base == [FirstAddressLine |-> [val |-> "1 Main St"], City |-> [val |-> "Zug"],
                 PostalCode |-> [val |-> "6300"], Country |-> [val |-> "CH"]]
        with_region == {base, base @@ [Region |-> [val |-> "ZG"]]}
    IN  with_region
            \cup {a @@ [AdditionalAddressLine |-> lines] :
                     a \in with_region,
                     lines \in {<<>>, <<[val |-> "Floor 2"]>>,
                                <<[val |-> "Floor 2"], [val |-> "Box 7"]>>}}

LeiRecords ==
    {[LEI |-> [val |-> lei],
      Entity |-> [LegalName |-> [val |-> "Acme"], LegalAddress |-> a]] :
        lei \in {"L1", "L2"}, a \in LegalAddresses}

LeiVerifications ==
    { [id |-> "ver1"],
      [id |-> "ver1", info |-> [attributes |-> <<>>]],
      [id |-> "ver1", info |-> [attributes |->
          << [name |-> "lei", value |-> "L1", cred_def_id |-> "cd1"] >>]],
      [id |-> "ver1", info |-> [attributes |->
          << [name |-> "lei", value |-> "L1", cred_def_id |-> "cd1"],
             [name |-> "lei", value |-> "L2", cred_def_id |-> Undefined] >>]],
      [id |-> "ver1", info |-> [attributes |->
          << [name |-> "lei", value |-> "", cred_def_id |-> "cd1"] >>]] }

LeiInit ==
    /\ helper = TysSignup
    /\ proof_schema_file = [status |-> "unreadable"]
    /\ proof_schema_template = <<>>
    /\ now = 9
    /\ issued = <<>>
    /\ \E input \in {[lei_number |-> "L1"], [lei_number |-> ""], [lei_number |-> Undefined]}
                       \cup {[verification |-> v] : v \in LeiVerifications} :
          \/ args = input @@ [answer |-> [error |-> TRUE]]
          \/ args = input @@ [answer |-> [error |-> FALSE, is_array |-> FALSE]]
          \/ \E n \in 0..MaxRecords : \E body \in [1..n -> LeiRecords] :
                args = input @@ [answer |-> [error |-> FALSE, is_array |-> TRUE,
                                             body |-> body]]
    /\ call = NoCall
    /\ SignupIdle
    /\ OthersIdle
    /\ ResponderIdle

\* buildUserRecordFromLEI(args.lei_number), the registry answering args.answer
CallBuildUserRecordFromLEI ==
    /\ call = NoCall
    /\ "lei_number" \in DOMAIN args
    /\ call' = [op |-> "buildUserRecordFromLEI",
                result |-> BuildUserRecordFromLEI(args.lei_number, args.answer)]
    /\ UNCHANGED <<helper, proof_schema_file, args, issued, loginVars, responderVars, otherVars>>
    /\ UNCHANGED signupVars

\* proofToUserRecord(args.verification), the registry answering args.answer
CallProofToUserRecord ==
    /\ call = NoCall
    /\ "verification" \in DOMAIN args
    /\ call' = [op |-> "proofToUserRecord",
                result |-> TysProofToUserRecord(args.verification, args.answer)]
    /\ UNCHANGED <<helper, proof_schema_file, args, issued, loginVars, responderVars, otherVars>>
    /\ UNCHANGED signupVars

LeiNext ==
    \/ CallBuildUserRecordFromLEI
    \/ CallProofToUserRecord

SpecLei == LeiInit /\ [][LeiNext]_vars

-----------------------------------------------------------------------------
(* buildUserRecordFromLEI: claims *)

\* the call has asked the registry
LookedUp ==
    \/ /\ call.op = "buildUserRecordFromLEI"
       /\ args.lei_number \notin {"", Undefined}
    \/ /\ call.op = "proofToUserRecord"
       /\ "info" \in DOMAIN args.verification
       /\ \E i \in DOMAIN args.verification.info.attributes :
             /\ args.verification.info.attributes[i].name = "lei"
             /\ args.verification.info.attributes[i].value # ""
             /\ \A j \in DOMAIN args.verification.info.attributes :
                   args.verification.info.attributes[j].name = "lei" => j <= i

\* the registry has answered with exactly one record
OneRecord ==
    /\ ~args.answer.error
    /\ args.answer.is_array
    /\ Len(args.answer.body) = 1

\* C18: when the registry answers the lookup with exactly one record,
\* buildUserRecordFromLEI resolves with a user record whose LEI, company_name,
\* address_line_1, city, zip_code and country are the registry's values,
\* whose state is the registry's Region, or "-" when there is no Region, and
\* whose address_line_2 is the first additional address line when there is
\* one and is absent otherwise.
C18_OneRecordMapped ==
    (LookedUp /\ OneRecord) =>
        LET leiInfo == args.answer.body[1]
            address == leiInfo.Entity.LegalAddress
            user_record == call.result.value
        IN  /\ call.result.state = "resolved"
            /\ user_record.LEI = leiInfo.LEI.val
            /\ user_record.company_name = leiInfo.Entity.LegalName.val
            /\ user_record.address_line_1 = address.FirstAddressLine.val
            /\ user_record.city = address.City.val
            /\ user_record.zip_code = address.PostalCode.val
            /\ user_record.country = address.Country.val
            /\ user_record.state =
                  (IF "Region" \in DOMAIN address THEN address.Region.val ELSE "-")
            /\ IF "AdditionalAddressLine" \in DOMAIN address
                  /\ address.AdditionalAddressLine # <<>>
               THEN /\ "address_line_2" \in DOMAIN user_record
                    /\ user_record.address_line_2 = address.AdditionalAddressLine[1].val
               ELSE "address_line_2" \notin DOMAIN user_record

\* a record with two additional lines and no Region has been mapped
C18_Witness ==
    /\ LookedUp
    /\ OneRecord
    /\ call.op = "buildUserRecordFromLEI"
    /\ "Region" \notin DOMAIN args.answer.body[1].Entity.LegalAddress
    /\ "AdditionalAddressLine" \in DOMAIN args.answer.body[1].Entity.LegalAddress
    /\ Len(args.answer.body[1].Entity.LegalAddress.AdditionalAddressLine) = 2
    /\ call.result.state = "resolved"
    /\ call.result.value.state = "-"
    /\ call.result.value.address_line_2 = "Floor 2"

\* the registry has answered with a transport error, no record or several
FailedLookup ==
    IF args.answer.error THEN TRUE
    ELSE args.answer.is_array /\ Len(args.answer.body) # 1

\* C19: when the registry answers the lookup with no record, with more than
\* one record or with a transport error, buildUserRecordFromLEI (and so the
\* tys proofToUserRecord) ends with a failure reported to its caller: its
\* promise is rejected, neither resolved nor left pending.
C19_LookupFailureReported ==
    (LookedUp /\ FailedLookup) => call.result.state = "rejected"

-----------------------------------------------------------------------------
(* AccountSignupHelper.cleanup *)

MaxConnections == 3     \* connections the agent holds when cleanup() is called

\* the issuers the helper was built with, each an agent name or an agent url
TrackedIssuers ==
    IF helper = TysSignup
    THEN {"gleif", "http://lei"}                    \* gleif_issuer, lei_issuer
    ELSE {"tys", "http://lei", "iftfounder"}        \* tys_issuer, lei_issuer, iftfounder_issuer

\* a mutation of QueryMatches: the remote.url clause left out
QueryMatchesNameOnly(connection, issuers) ==
    connection.remote.name \in issuers

\* {$or: [{'remote.name': {$in: issuers}}, {'remote.url': {$in: issuers}}]}
QueryMatches(connection, issuers) ==
    IF connection.remote.name \in issuers THEN TRUE
    ELSE connection.remote.url \in issuers

\* what agent.getConnections(query) returns
Found(conns, issuers) == SelectSeq(conns, LAMBDA c : QueryMatches(c, issuers))

\* the agents the helper's agent may be connected to
Remotes ==
    { [name |-> "gleif", url |-> "http://gleif"],
      [name |-> "leiissuer", url |-> "http://lei"],
      [name |-> "tys", url |-> "http://tys"],
      [name |-> "iftfounder", url |-> "http://iftfounder"],
      [name |-> "acme", url |-> "http://acme"] }

CleanupInit ==
    /\ helper \in {TysSignup, IftSignup}
    /\ proof_schema_file = [status |-> "unreadable"]
    /\ proof_schema_template = <<>>
    /\ now = 9
    /\ issued = <<>>
    /\ \E n \in 0..MaxConnections : \E remotes \in [1..n -> Remotes] :
          /\ connections = [i \in 1..n |->
                               [id |-> i, remote |-> remotes[i], state |-> "connected"]]
          /\ args = [connections |-> connections]
    /\ call = NoCall
    /\ pc = 0
    /\ PROOF_FORMAT = <<>>
    /\ cred_defs = [i \in Issuers |-> <<>>]
    /\ trace = <<>>
    /\ picked = <<>>
    /\ ResponderIdle
    /\ OthersIdle

cleanupFrame ==
    <<helper, proof_schema_file, args, issued, loginVars, responderVars, otherVars,
      PROOF_FORMAT, cred_defs, picked>>

\* cleanup() is called: agent.getConnections(query) is called
CleanupCalled ==
    /\ pc = 0
    /\ pc' = 1
    /\ call' = [op |-> "cleanup", state |-> "pending", connections |-> <<>>, index |-> 0]
    /\ UNCHANGED <<cleanupFrame, connections, trace>>

\* agent.getConnections answers, or fails; the loop begins with the first
\* connection found, or cleanup() is done when none was found
CleanupGetConnectionsAnswers ==
    /\ pc = 1
    /\ \/ LET found == Found(connections, TrackedIssuers)
          IN  /\ trace' = Append(trace, [op |-> "getConnections", id |-> 0, ok |-> TRUE])
              /\ IF found = <<>>
                 THEN /\ pc' = 3
                      /\ call' = [call EXCEPT !.state = "resolved"]
                 ELSE /\ pc' = 2
                      /\ call' = [call EXCEPT !.connections = found, !.index = 1]
       \/ /\ trace' = Append(trace, [op |-> "getConnections", id |-> 0, ok |-> FALSE])
          /\ pc' = 3
          /\ call' = [call EXCEPT !.state = "rejected"]
    /\ UNCHANGED <<cleanupFrame, connections>>

\* agent.deleteConnection(connections[index].id) answers, or fails; the loop
\* goes on with the next connection found, or cleanup() is done
CleanupDeleteConnectionAnswers ==
    /\ pc = 2
    /\ LET id == call.connections[call.index].id
       IN  \/ /\ Exists(connections, id)
              /\ connections' = Deleted(connections, id)
              /\ trace' = Append(trace, [op |-> "deleteConnection", id |-> id, ok |-> TRUE])
              /\ IF call.index = Len(call.connections)
                 THEN /\ pc' = 3
                      /\ call' = [call EXCEPT !.state = "resolved"]
                 ELSE /\ pc' = 2
                      /\ call' = [call EXCEPT !.index = @ + 1]
           \/ /\ UNCHANGED connections
              /\ trace' = Append(trace, [op |-> "deleteConnection", id |-> id, ok |-> FALSE])
              /\ pc' = 3
              /\ call' = [call EXCEPT !.state = "rejected"]
    /\ UNCHANGED cleanupFrame

CleanupNext ==
    \/ CleanupCalled
    \/ CleanupGetConnectionsAnswers
    \/ CleanupDeleteConnectionAnswers

SpecCleanup == CleanupInit /\ [][CleanupNext]_vars

-----------------------------------------------------------------------------
(* AccountSignupHelper.cleanup: claims *)

\* the connection is one to a tracked issuer, by its name or by its url
ToTrackedIssuer(connection) ==
    \/ connection.remote.name \in TrackedIssuers
    \/ connection.remote.url \in TrackedIssuers

CleanedUp == call.op = "cleanup" /\ call.state = "resolved"

\* C20: after cleanup() has completed the agent holds no connection whose
\* remote name or remote url is one of the helper's tracked issuers, and
\* every connection to another remote that there was before cleanup() is
\* still there.
C20_CleanupDeletesIssuerConnections ==
    CleanedUp =>
        /\ \A i \in DOMAIN connections : ~ToTrackedIssuer(connections[i])
        /\ \A i \in DOMAIN args.connections :
              ~ToTrackedIssuer(args.connections[i])
                  => \E j \in DOMAIN connections : connections[j] = args.connections[i]

\* connections to an issuer tracked by name, to one tracked by url and to
\* another agent, before a cleanup() that has completed
C20_Witness ==
    /\ CleanedUp
    /\ \E i, j, k \in DOMAIN args.connections :
          /\ args.connections[i].remote.name \in TrackedIssuers
          /\ args.connections[j].remote.url \in TrackedIssuers
          /\ ~ToTrackedIssuer(args.connections[k])
    /\ Len(connections) = 1

-----------------------------------------------------------------------------
(* LoginHelper: getProofSchema and checkProof on one helper, the schema    *)
(* file being rewritten between calls                                      *)

\* what the schema file may hold
RewrittenFiles ==
    { [status |-> "unreadable"],
      [status |-> "invalid_json"],
      [status |-> "ok", json |-> [name |-> "login", requested_attributes |->
          << [key |-> "k1", name |-> Ssn] >>]],
      [status |-> "ok", json |-> [version |-> Version]],
      [status |-> "ok", json |-> [name |-> "login", version |-> Version,
          requested_attributes |-> << [key |-> "k1", name |-> Ssn] >>]],
      [status |-> "ok", json |-> [name |-> "login", version |-> Version,
          requested_attributes |->
              << [key |-> "k1", name |-> Ssn, restrictions |-> Restricted],
                 [key |-> "k2", name |-> FullName] >>]] }

\* answers to a proof request for ssn
LoginAnswers ==
    { [id |-> "ver1", info |-> [attributes |->
          << [name |-> Ssn, value |-> "a", cred_def_id |-> Undefined] >>]],
      [id |-> "ver1", info |-> [attributes |->
          << [name |-> Ssn, value |-> "a", cred_def_id |-> "cd2"] >>]],
      [id |-> "ver1", info |-> [attributes |->
          << [name |-> Ssn, value |-> "a", cred_def_id |-> "cd1"],
             [name |-> <<"f","n">>, value |-> "a", cred_def_id |-> Undefined] >>]] }

LoginInit ==
    /\ helper = "LoginHelper"
    /\ proof_schema_file \in RewrittenFiles
    /\ proof_schema_template = <<>>
    /\ now = 9
    /\ issued = <<>>
    /\ args \in [verification : LoginAnswers,
                 user_record : {[email |-> "u",
                                 personal_info |-> [n \in SchemaNames |-> "a"]]}]
    /\ call = NoCall
    /\ SignupIdle
    /\ OthersIdle
    /\ ResponderIdle

\* the schema file is rewritten, or removed
RewriteFile ==
    /\ proof_schema_file' \in RewrittenFiles \ {proof_schema_file}
    /\ UNCHANGED <<helper, proof_schema_template, now, issued, args, call>>
    /\ UNCHANGED <<signupVars, responderVars, otherVars>>

LoginNext ==
    \/ LoginGetProofSchema
    \/ LoginCheckProof
    \/ RewriteFile
    \/ Tick

SpecLogin == LoginInit /\ [][LoginNext]_vars

-----------------------------------------------------------------------------
(* LoginHelper on a file that changes: claims *)

\* the file cannot be read, is not JSON, or has no name or no version
BadFile ==
    \/ proof_schema_file.status \in {"unreadable", "invalid_json"}
    \/ /\ proof_schema_file.status = "ok"
       /\ \/ "name" \notin DOMAIN proof_schema_file.json
          \/ "version" \notin DOMAIN proof_schema_file.json

\* this step is a call of getProofSchema that is seen in the state
GetProofSchemaStep ==
    /\ call'.op = "getProofSchema"
    /\ <<call, issued, proof_schema_template>>' # <<call, issued, proof_schema_template>>

\* C21: a call of LoginHelper.getProofSchema made while the template is
\* unloaded fails when the file is unreadable, is not JSON or lacks name or
\* version: it returns no proof request and leaves the template unloaded; a
\* later call reads the file again, and succeeds with the file's content when
\* the file has become good.
C21_FailedLoadLeavesUnloaded ==
    [][ (proof_schema_template = <<>> /\ GetProofSchemaStep) =>
            IF BadFile
            THEN /\ ~call'.result.ok
                 /\ proof_schema_template' = <<>>
                 /\ issued' = issued
            ELSE /\ call'.result.ok
                 /\ proof_schema_template' = <<proof_schema_file.json>>
                 /\ call'.result.value.name = proof_schema_file.json.name ]_vars

\* a call has failed on a file without version, and the file is good by now
C21_Witness ==
    /\ call.op = "getProofSchema"
    /\ ~call.result.ok
    /\ call.result.error = "Invalid proof schema"
    /\ proof_schema_template = <<>>
    /\ ~BadFile

-----------------------------------------------------------------------------
(* ConnectionResponder: the polling interval *)

\* if (interval !== undefined && typeof interval !== 'number' || interval < 0)
InvalidConstructorInterval(iv) ==
    IF TypeOf(iv) # "undefined" /\ TypeOf(iv) # "number" THEN TRUE ELSE LessThanZero(iv)

\* this.interval = interval !== undefined ? interval : 3000
ConstructedInterval(iv) ==
    IF TypeOf(iv) # "undefined" THEN iv ELSE Number(DefaultInterval)

\* if (typeof interval !== 'number' || interval < 0)
InvalidInterval(ms) ==
    IF TypeOf(ms) # "number" THEN TRUE ELSE LessThanZero(ms)

\* what callers pass as an interval
Intervals ==
    { [type |-> "undefined"], [type |-> "string"],
      Number(0 - 1), Number(0), Number(7), NaN }

\* new ConnectionResponder(agent, interval) has returned
IntervalInit ==
    /\ helper = "ConnectionResponder"
    /\ args \in [interval : {iv \in Intervals : ~InvalidConstructorInterval(iv)}]
    /\ interval = ConstructedInterval(args.interval)
    /\ stopped = TRUE
    /\ loops = <<>>
    /\ offered = 0
    /\ proof_schema_file = [status |-> "unreadable"]
    /\ proof_schema_template = <<>>
    /\ now = 0
    /\ issued = <<>>
    /\ call = NoCall
    /\ SignupIdle
    /\ OthersIdle

\* set_interval(ms)
SetInterval ==
    /\ \E ms \in Intervals :
          IF InvalidInterval(ms)
          THEN /\ call' = [op |-> "set_interval", ms |-> ms,
                           result |-> [ok |-> FALSE, error |-> "TypeError"]]
               /\ UNCHANGED interval
          ELSE /\ call' = [op |-> "set_interval", ms |-> ms, result |-> [ok |-> TRUE]]
               /\ interval' = ms
    /\ UNCHANGED <<helper, proof_schema_file, proof_schema_template, now, issued, args>>
    /\ UNCHANGED <<signupVars, stopped, loops, offered, otherVars>>

IntervalNext ==
    \/ StartOnce
    \/ Stop
    \/ SetInterval
    \/ OfferArrives
    \/ LoopStep(1)

SpecInterval == IntervalInit /\ [][IntervalNext]_vars

-----------------------------------------------------------------------------
(* ConnectionResponder, the polling interval: claims *)

\* ms is a number that is at least 0
NonNegativeNumber(ms) ==
    IF ms.type = "number" THEN ~ms.nan /\ ms.value >= 0 ELSE FALSE

\* this step is a call of set_interval that is seen in the state
SetIntervalStep ==
    /\ call'.op = "set_interval"
    /\ <<call, interval>>' # <<call, interval>>

\* this step starts a wait of the loop
WaitStarts ==
    /\ loops # <<>>
    /\ loops[1].at # "wait"
    /\ loops'[1].at = "wait"

\* C22: set_interval(ms) fails when ms is not a non-negative number and then
\* leaves the interval as it was; with a valid ms it sets the interval, every
\* wait that starts lasts the interval of that moment, and a responder built
\* without an interval has the interval 3000.
C22_SetInterval ==
    /\ (args.interval.type = "undefined" => interval = Number(3000))
    /\ [][ /\ SetIntervalStep =>
                IF NonNegativeNumber(call'.ms)
                THEN call'.result.ok /\ interval' = call'.ms
                ELSE ~call'.result.ok /\ interval' = interval
           /\ WaitStarts => loops'[1].delay = interval ]_vars

-----------------------------------------------------------------------------
(* cleanupAfterDemo: the script that clears the agents after a demo run *)

MaxDemoConnections == 2     \* connections that exist when the script starts

\* the agents the script logs in to, by the name of their identity
DemoAgents == {"gleif", "lei", "iftfounder", "tys", "iftnetwork", "acme"}

\* the awaited calls of the script's body, in order
DemoProgram ==
    << [op |-> "deleteAllCredentials", from |-> "gleif"],
       [op |-> "deleteConnections", from |-> "gleif", to |-> "lei"],
       [op |-> "deleteAllCredentials", from |-> "lei"],
       [op |-> "deleteConnections", from |-> "lei", to |-> "acme"],
       [op |-> "deleteAllCredentials", from |-> "iftfounder"],
       [op |-> "deleteConnections", from |-> "iftfounder", to |-> "acme"],
       [op |-> "deleteAllCredentials", from |-> "tys"],
       [op |-> "deleteConnections", from |-> "tys", to |-> "acme"],
       [op |-> "deleteAllCredentials", from |-> "iftnetwork"],
       [op |-> "deleteConnections", from |-> "iftnetwork", to |-> "acme"],
       [op |-> "deleteAllCredentials", from |-> "acme"],
       [op |-> "deleteAllConnections", from |-> "acme"],
       [op |-> "deleteAccounts"] >>

\* the script has reached console.log('cleaned up successfully')
DemoFinished == pc = Len(DemoProgram) + 1

\* the call the script is about to make
DemoAt(op) ==
    /\ pc \in DOMAIN DemoProgram
    /\ DemoProgram[pc].op = op

RECURSIVE Listed(_)
\* the members of a set, in some order
Listed(S) ==
    IF S = {} THEN <<>>
    ELSE LET x == CHOOSE y \in S : TRUE IN <<x>> \o Listed(S \ {x})

\* an agent's record of a connection to another agent
ConnectionOf(pairs) ==
    [i \in DOMAIN pairs |->
        [id |-> i, owner |-> pairs[i][1], remote |-> [name |-> pairs[i][2]],
         state |-> "connected"]]

\* a credential an agent holds
CredentialOf(holders) == [i \in DOMAIN holders |-> [id |-> i, owner |-> holders[i]]]

\* the pairs of an agent and another agent it has a connection to
DemoPairs == {p \in DemoAgents \X DemoAgents : p[1] # p[2]}

RECURSIVE PairSets(_)
\* the sets of at most n such pairs
PairSets(n) ==
    IF n = 0 THEN {{}}
    ELSE PairSets(n - 1) \cup {S \cup {p} : S \in PairSets(n - 1), p \in DemoPairs}

\* the sets of agents that hold a credential when the script starts
DemoHolders == {{}, DemoAgents} \cup {{a} : a \in DemoAgents}

\* fromAgent.getConnections({'remote.name': toName})
ConnectionsTo(conns, from, to) ==
    {conns[i].id : i \in {j \in DOMAIN conns :
                             conns[j].owner = from /\ conns[j].remote.name = to}}

\* fromAgent.getConnections()
ConnectionsOf(conns, from) ==
    {conns[i].id : i \in {j \in DOMAIN conns : conns[j].owner = from}}

\* fromAgent.getCredentials()
CredentialsOf(creds, from) ==
    {creds[i].id : i \in {j \in DOMAIN creds : creds[j].owner = from}}

\* what is left of the records once those of the ids are deleted
Remaining(records, ids) == SelectSeq(records, LAMBDA r : r.id \notin ids)

\* the log of failed deletions, after a loop in which those of `failed` threw
DeletionErrors(log, op, from, failed) ==
    IF failed = {} THEN log ELSE Append(log, [op |-> op, issuer |-> from, ok |-> FALSE])

DemoInit ==
    /\ helper = "cleanupAfterDemo"
    /\ \E pairs \in PairSets(MaxDemoConnections) :
          connections = ConnectionOf(Listed(pairs))
    /\ \E holders \in DemoHolders : credentials = CredentialOf(Listed(holders))
    /\ args = [connections |-> connections, credentials |-> credentials]
    /\ pc = 1
    /\ trace = <<>>
    /\ call = NoCall
    /\ PROOF_FORMAT = <<>>
    /\ cred_defs = [i \in Issuers |-> <<>>]
    /\ picked = <<>>
    /\ proof_schema_file = [status |-> "unreadable"]
    /\ proof_schema_template = <<>>
    /\ now = 0
    /\ issued = <<>>
    /\ inflight = <<>>
    /\ ResponderIdle

demoFrame ==
    <<helper, proof_schema_file, args, issued, loginVars, responderVars, inflight,
      PROOF_FORMAT, cred_defs, picked>>

\* getIdentity or the listing call throws: the script's catch logs the error
\* and the script ends
DemoThrows ==
    /\ pc \in DOMAIN DemoProgram
    /\ DemoProgram[pc].op # "deleteAccounts"
    /\ pc' = 0
    /\ call' = [op |-> DemoProgram[pc].op, result |-> [ok |-> FALSE, error |-> "Error"]]
    /\ UNCHANGED <<demoFrame, connections, credentials, trace>>

\* deleteAllCredentials(fromAgent): every credential listed is deleted, a
\* deletion that throws is logged and the loop goes on
DeleteAllCredentials ==
    /\ DemoAt("deleteAllCredentials")
    /\ LET from == DemoProgram[pc].from
           listed == CredentialsOf(credentials, from)
       IN  \E failed \in SUBSET listed :
              /\ credentials' = Remaining(credentials, listed \ failed)
              /\ trace' = DeletionErrors(trace, "deleteCredential", from, failed)
    /\ pc' = pc + 1
    /\ call' = [op |-> "deleteAllCredentials", result |-> [ok |-> TRUE]]
    /\ UNCHANGED <<demoFrame, connections>>

\* deleteConnections(fromAgent, toAgent)
DeleteConnections ==
    /\ DemoAt("deleteConnections")
    /\ LET from == DemoProgram[pc].from
           listed == ConnectionsTo(connections, from, DemoProgram[pc].to)
       IN  \E failed \in SUBSET listed :
              /\ connections' = Remaining(connections, listed \ failed)
              /\ trace' = DeletionErrors(trace, "deleteConnection", from, failed)
    /\ pc' = pc + 1
    /\ call' = [op |-> "deleteConnections", result |-> [ok |-> TRUE]]
    /\ UNCHANGED <<demoFrame, credentials>>

\* deleteAllConnections(fromAgent)
DeleteAllConnections ==
    /\ DemoAt("deleteAllConnections")
    /\ LET from == DemoProgram[pc].from
           listed == ConnectionsOf(connections, from)
       IN  \E failed \in SUBSET listed :
              /\ connections' = Remaining(connections, listed \ failed)
              /\ trace' = DeletionErrors(trace, "deleteConnection", from, failed)
    /\ pc' = pc + 1
    /\ call' = [op |-> "deleteAllConnections", result |-> [ok |-> TRUE]]
    /\ UNCHANGED <<demoFrame, credentials>>

\* deleteAccounts(accountsToCleanupArray): requests to the web applications,
\* none to an agent; a request that fails ends the script
DeleteAccounts ==
    /\ DemoAt("deleteAccounts")
    /\ \E ok \in BOOLEAN :
          /\ pc' = IF ok THEN pc + 1 ELSE 0
          /\ call' = [op |-> "deleteAccounts", result |-> [ok |-> ok]]
    /\ UNCHANGED <<demoFrame, connections, credentials, trace>>

DemoNext ==
    \/ DemoThrows
    \/ DeleteAllCredentials
    \/ DeleteConnections
    \/ DeleteAllConnections
    \/ DeleteAccounts

SpecDemo == DemoInit /\ [][DemoNext]_vars

-----------------------------------------------------------------------------
(* cleanupAfterDemo: claims *)

\* the agent has a record of a connection to the other agent
Connected(from, to) ==
    \E i \in DOMAIN connections :
        connections[i].owner = from /\ connections[i].remote.name = to

\* the connections the document says to leave
LeftAlone ==
    { <<"lei", "iftfounder">>, <<"lei", "tys">>, <<"iftfounder", "lei">>,
      <<"tys", "lei">>, <<"iftnetwork", "lei">>, <<"iftnetwork", "tys">>,
      <<"iftnetwork", "iftfounder">> }

\* C23: when the script has finished and no deletion has failed, no agent
\* holds a credential; GLEIF has no connection to the LEI issuer; the LEI
\* issuer has none to Acme or to GLEIF; IFT founder, TYS and IFT network have
\* none to Acme; Acme has none at all; and every connection the document says
\* to leave is still there.
C23_DocumentedCleanup ==
    (DemoFinished /\ trace = <<>>) =>
        /\ credentials = <<>>
        /\ ~Connected("gleif", "lei")
        /\ ~Connected("lei", "acme")
        /\ ~Connected("lei", "gleif")
        /\ \A a \in {"iftfounder", "tys", "iftnetwork"} : ~Connected(a, "acme")
        /\ \A a \in DemoAgents : ~Connected("acme", a)
        /\ \A i \in DOMAIN args.connections :
              <<args.connections[i].owner, args.connections[i].remote.name>> \in LeftAlone
                  => Connected(args.connections[i].owner, args.connections[i].remote.name)

-----------------------------------------------------------------------------
(* AccountSignupHelper.getProofSchema, the order of its agent calls: claims *)

\* the i-th agent call looks up the credential definitions of an issuer
IsLookup(i) == trace[i].op = "getCredentialDefinitions"

\* before the i-th agent call, setup() has seen the connection to that issuer
\* established
ConfirmedBefore(i) ==
    \E j \in 1..(i - 1) :
        /\ trace[j].op = "waitForConnection"
        /\ trace[j].issuer = trace[i].issuer
        /\ trace[j].ok

\* C24: within a call of AccountSignupHelper.getProofSchema, of the TYS helper
\* or of the IFT-Network helper, the credential definitions of an issuer are
\* looked up only after setup() has confirmed the connection to that issuer.
C24_LookupAfterSetup ==
    \A i \in DOMAIN trace : IsLookup(i) => ConfirmedBefore(i)

-----------------------------------------------------------------------------
(* LoginHelper, the cached template: claims *)

\* the errors of reading the file and of testing what it holds
LoadErrors == {"readFile error", "SyntaxError", "Invalid proof schema"}

\* this step is a call of checkProof that is seen in the state
CheckProofStep ==
    /\ call'.op = "checkProof"
    /\ call' # call

\* C25: once the template is loaded it never changes.  A later getProofSchema
\* returns a copy of it whose version is the template's version followed by
\* the clock reading, and whose attributes are the template's when the call
\* gives no restrictions, whatever earlier calls were given; neither
\* getProofSchema nor checkProof reads the file again, so neither fails with
\* an error of loading, whatever the file holds by then.
C25_CachedTemplateNeverChanges ==
    [][ proof_schema_template # <<>> =>
            /\ proof_schema_template' = proof_schema_template
            /\ issued' # issued =>
                  /\ call'.op = "getProofSchema"
                  /\ call'.result.ok
                  /\ call'.result.value.name = proof_schema_template[1].name
                  /\ call'.result.value.version =
                         proof_schema_template[1].version \o Decimal(now)
                  /\ ~HasOptRestrictions(call'.opts) =>
                         call'.result.value.requested_attributes =
                             proof_schema_template[1].requested_attributes
            /\ CheckProofStep =>
                  (~call'.result.ok => call'.result.error \notin LoadErrors) ]_vars

\* the template is loaded, the file has become unreadable, and a third proof
\* request has been returned, for a call without restrictions
C25_Witness ==
    /\ proof_schema_template # <<>>
    /\ proof_schema_file.status = "unreadable"
    /\ Len(issued) = 3
    /\ call.op = "getProofSchema"
    /\ ~HasOptRestrictions(call.opts)
    /\ call.result.ok

-----------------------------------------------------------------------------
(* LoginHelper: calls that overlap.  A call runs without interruption up   *)
(* to `await file_promise`, and from there to its end.                     *)

MaxOverlap == 2     \* calls made on one helper

\* the calls made on the helper
OverlapCalls ==
    { [op |-> "getProofSchema", opts |-> NoOpts],
      [op |-> "getProofSchema", opts |-> [restrictions |-> << [cred_def_id |-> "cd2"] >>]] }
    \cup
    { [op |-> "checkProof", verification |-> v, user_record |-> u] :
        v \in LoginAnswers,
        u \in {[email |-> "u"],
               [email |-> "u", personal_info |-> [n \in SchemaNames |-> "a"]]} }

\* what a call does from the test of the cached template to its end, and the
\* cache it leaves
Outcome(c, cache) ==
    IF c.op = "getProofSchema"
    THEN GetProofSchema(cache, proof_schema_file, c.opts, now)
    ELSE CheckProof(cache, proof_schema_file, c.verification, c.user_record)

\* the call gets to `if (!this.proof_schema_template)` and finds no template
AwaitsFile(c) ==
    IF c.op = "checkProof" /\ ~(HasAttributes(c.verification) /\ HasPersonalInfo(c.user_record))
    THEN FALSE
    ELSE proof_schema_template = <<>>

NotBegun == [at |-> "idle"]

OverlapInit ==
    /\ helper = "LoginHelper"
    /\ proof_schema_file \in RewrittenFiles
    /\ proof_schema_template = <<>>
    /\ now = 9
    /\ issued = <<>>
    /\ args \in [calls : [1..MaxOverlap -> OverlapCalls]]
    /\ call = NoCall
    /\ inflight = [i \in 1..MaxOverlap |-> NotBegun]
    /\ credentials = <<>>
    /\ SignupIdle
    /\ ResponderIdle

overlapFrame == <<helper, proof_schema_file, now, args, credentials, signupVars, responderVars>>

\* the call has returned or thrown
Completes(i, r) ==
    /\ inflight' = [inflight EXCEPT ![i] = [at |-> "returned", result |-> r.result,
                                             read |-> inflight[i].at = "reading"]]
    /\ call' = [op |-> args.calls[i].op, result |-> r.result]
    /\ issued' = IF args.calls[i].op = "getProofSchema" /\ r.result.ok
                 THEN Append(issued, r.result.value.version)
                 ELSE issued

\* a mutation of BeginCall: the call that finds no template stores an empty
\* one before it reads the file
BeginCallStoresPlaceholder(i) ==
    /\ inflight[i] = NotBegun
    /\ IF AwaitsFile(args.calls[i])
       THEN /\ inflight' = [inflight EXCEPT ![i] = [at |-> "reading"]]
            /\ proof_schema_template' = << [name |-> "", version |-> <<>>] >>
            /\ UNCHANGED <<call, issued>>
       ELSE /\ Completes(i, Outcome(args.calls[i], proof_schema_template))
            /\ UNCHANGED proof_schema_template
    /\ UNCHANGED overlapFrame

\* the call begins: with a template cached, or with bad arguments, it runs to
\* its end; otherwise it calls fs.readFile and awaits the promise
BeginCall(i) ==
    /\ inflight[i] = NotBegun
    /\ IF AwaitsFile(args.calls[i])
       THEN /\ inflight' = [inflight EXCEPT ![i] = [at |-> "reading"]]
            /\ UNCHANGED <<proof_schema_template, call, issued>>
       ELSE /\ Completes(i, Outcome(args.calls[i], proof_schema_template))
            /\ UNCHANGED proof_schema_template
    /\ UNCHANGED overlapFrame

\* the file promise settles: the call parses and tests what was read, assigns
\* this.proof_schema_template, and runs to its end
FileRead(i) ==
    /\ inflight[i].at = "reading"
    /\ LET r == Outcome(args.calls[i], <<>>)
       IN  /\ Completes(i, r)
           /\ proof_schema_template' =
                  IF r.cache = <<>> THEN proof_schema_template ELSE r.cache
    /\ UNCHANGED overlapFrame

OverlapNext ==
    \/ \E i \in 1..MaxOverlap : BeginCall(i)
    \/ \E i \in 1..MaxOverlap : FileRead(i)

SpecOverlap == OverlapInit /\ [][OverlapNext]_vars

-----------------------------------------------------------------------------
(* LoginHelper, calls that overlap: claims *)

RECURSIVE OneAfterTheOther(_, _)
\* the outcomes of the calls when call i and those after it are made one
\* after the other, each returning before the next begins
OneAfterTheOther(i, cache) ==
    IF i > MaxOverlap THEN <<>>
    ELSE <<Outcome(args.calls[i], cache).result>>
             \o OneAfterTheOther(i + 1, Outcome(args.calls[i], cache).cache)

\* the call has returned or thrown
Returned_(i) == inflight[i].at = "returned"

\* the file holds a valid template
GoodFile == LoadTemplate(proof_schema_file).ok

\* C26: when calls of getProofSchema and checkProof overlap while the template
\* is unloaded, each call's outcome is the one it has when the calls are made
\* one after the other; the template is at every moment unloaded or equal to
\* the file's content; and once a call that has read a good file has returned
\* the template is loaded with that content.
C26_OverlapAsOneAfterTheOther ==
    /\ \A i \in 1..MaxOverlap :
          Returned_(i) => inflight[i].result = OneAfterTheOther(1, <<>>)[i]
    /\ proof_schema_template # <<>> =>
          GoodFile /\ proof_schema_template = <<proof_schema_file.json>>
    /\ \A i \in 1..MaxOverlap :
          (Returned_(i) /\ inflight[i].read /\ GoodFile)
              => proof_schema_template = <<proof_schema_file.json>>

\* two calls have both read the file, and both have returned
C26_Witness ==
    /\ GoodFile
    /\ \A i \in 1..2 : Returned_(i) /\ inflight[i].read
    /\ issued # <<>>
    /\ call.op = "checkProof"
    /\ call.result.ok

-----------------------------------------------------------------------------
(* AccountSignupHelper: checkProof, then proofToUserRecord on the          *)
(* verification that checkProof has accepted                               *)

\* the fields of the record the ift-network proofToUserRecord returns
IftRecordFields ==
    {"company_name", "address_line_1", "address_line_2", "city", "state", "zip_code",
     "country", "tax_id", "supplier_identifier", "supplier_rating", "supplier_since",
     "tys_identifier", "trust_value", "member_since", "member_identifier", "lei"}

\* ift-network AccountSignupHelper.proofToUserRecord(verification)
IftProofToUserRecord(verification) ==
    IF InvalidVerification(verification) THEN Rejected("Invalid verification")
    ELSE LET attributes == AllAttributes(verification.info.attributes, 1, EmptyObject)
         IN  Resolved([f \in IftRecordFields |->
                          IF f = "member_identifier" THEN "uuid"
                          ELSE IF f \in DOMAIN attributes THEN attributes[f]
                          ELSE Undefined])

\* what the registry answers to a lookup: the one record of that number
RegistryAnswer(lei_number) ==
    [error |-> FALSE, is_array |-> TRUE,
     body |-> << [LEI |-> [val |-> lei_number],
                  Entity |-> [LegalName |-> [val |-> "Acme"],
                              LegalAddress |->
                                  [FirstAddressLine |-> [val |-> "1 Main St"],
                                   City |-> [val |-> "Zug"],
                                   PostalCode |-> [val |-> "6300"],
                                   Country |-> [val |-> "CH"]]]] >>]

\* the number the tys proofToUserRecord looks up
LookedUpNumber(verification) ==
    LET attributes == AllAttributes(verification.info.attributes, 1, EmptyObject)
    IN  IF "lei" \in DOMAIN attributes THEN attributes.lei ELSE Undefined

RecordInit ==
    /\ helper \in {TysSignup, IftSignup}
    /\ proof_schema_file = [status |-> "unreadable"]
    /\ proof_schema_template = <<>>
    /\ now = 9
    /\ issued = <<>>
    /\ \/ \E omitted \in {o \in Omissions : Cardinality(o) <= 1}, extra \in ExtraChoices :
             args = [verification |->
                        [id |-> "ver1",
                         info |-> [attributes |-> SignupAttributes(omitted, extra)]]]
       \/ args \in [verification : MalformedVerifications]
    /\ call = NoCall
    /\ SignupIdle
    /\ OthersIdle
    /\ ResponderIdle

\* checkProof has returned the verification
Accepted_ == call.op = "checkProof" /\ call.result.ok

\* proofToUserRecord(verification) on the ift-network helper
IftCallProofToUserRecord ==
    /\ helper = IftSignup
    /\ Accepted_
    /\ call' = [op |-> "proofToUserRecord",
                result |-> IftProofToUserRecord(args.verification)]
    /\ UNCHANGED <<helper, proof_schema_file, args, issued, loginVars, responderVars, otherVars>>
    /\ UNCHANGED signupVars

\* proofToUserRecord(verification) on the tys helper
TysCallProofToUserRecord ==
    /\ helper = TysSignup
    /\ Accepted_
    /\ call' = [op |-> "proofToUserRecord",
                result |-> TysProofToUserRecord(args.verification,
                               RegistryAnswer(LookedUpNumber(args.verification)))]
    /\ UNCHANGED <<helper, proof_schema_file, args, issued, loginVars, responderVars, otherVars>>
    /\ UNCHANGED signupVars

RecordNext ==
    \/ IftSignupCheckProof
    \/ TysSignupCheckProof
    \/ IftCallProofToUserRecord
    \/ TysCallProofToUserRecord

SpecRecord == RecordInit /\ [][RecordNext]_vars

-----------------------------------------------------------------------------
(* AccountSignupHelper, the user record: claims *)

\* an attribute of that name carries a cred_def_id and that value
VerifiedValue(name, value) ==
    \E i \in DOMAIN args.verification.info.attributes :
        /\ args.verification.info.attributes[i].name = name
        /\ args.verification.info.attributes[i].cred_def_id # Undefined
        /\ args.verification.info.attributes[i].value = value

\* the fields checkProof required to be verified
RequiredVerified ==
    IF helper = TysSignup THEN {"lei"}
    ELSE SupplierFields
             \cup (IF PresentWithValue("lei") THEN {"lei"} ELSE {})
             \cup (IF \A f \in TysFields : PresentWithValue(f) THEN TysFields ELSE {})

\* the field of the user record that holds the value of that attribute
RecordField(name) == IF helper = TysSignup /\ name = "lei" THEN "LEI" ELSE name

\* C27: in the user record that proofToUserRecord builds from a verification
\* checkProof has accepted, each field checkProof required to be verified has
\* the value of an attribute of that name that carries a cred_def_id.
C27_RecordHoldsVerifiedValues ==
    (call.op = "proofToUserRecord" /\ call.result.state = "resolved") =>
        \A f \in RequiredVerified :
            VerifiedValue(f, call.result.value[RecordField(f)])

-----------------------------------------------------------------------------
(* LoginHelper, restrictions given with the call: claims *)

\* the last call returned a proof request whose restrictions came from
\* opts.restrictions, the template declaring none
RestrictedByOpts ==
    /\ call.op = "getProofSchema"
    /\ call.result.ok
    /\ HasOptRestrictions(call.opts)
    /\ call.opts.restrictions # <<>>
    /\ proof_schema_template # <<>>
    /\ \A k \in DOMAIN proof_schema_template[1].requested_attributes :
          ~HasRestrictions(proof_schema_template[1].requested_attributes[k])

\* the verification answers a requested attribute with a self-attested one
SelfAttestedAnswer ==
    \E k \in DOMAIN call.result.value.requested_attributes :
        \E i \in DOMAIN args.verification.info.attributes :
            /\ Matches(args.verification.info.attributes[i],
                       call.result.value.requested_attributes[k])
            /\ args.verification.info.attributes[i].cred_def_id = Undefined

\* C28: after getProofSchema has issued a proof request with restrictions
\* given through opts.restrictions, the template declaring none, checkProof on
\* an answer in which a requested attribute is self-attested rejects it.
C28_OptsRestrictionsEnforced ==
    [][ (RestrictedByOpts /\ SelfAttestedAnswer /\ CheckProofStep)
            => ~call'.result.ok ]_vars

-----------------------------------------------------------------------------
(* ConnectionResponder, the number of loops: claims *)

\* the polling loops that have not exited
ActiveLoops == {l \in DOMAIN loops : loops[l].at # "exited"}

\* C29: whatever calls of start() and stop() are made on one responder, at
\* most one polling loop is active at any time.
C29_AtMostOneLoop == Cardinality(ActiveLoops) <= 1

-----------------------------------------------------------------------------
(* ConnectionResponder, offers behind an offer that cannot be handled: claims *)

\* the agent has the connection of that id in state inbound_offer
Inbound(id) ==
    \E i \in DOMAIN connections :
        connections[i].id = id /\ connections[i].state = "inbound_offer"

\* getConnections has answered with offers and the loop calls acceptConnection
AcceptingSome == loops # <<>> /\ loops[1].at = "acceptConnection"

\* in this iteration acceptConnection and deleteConnection have both failed
\* for the offer of that id
CannotBeHandled(id) ==
    /\ loops # <<>>
    /\ \E i \in DOMAIN loops[1].calls :
          /\ loops[1].calls[i].op = "deleteConnection"
          /\ loops[1].calls[i].id = id
          /\ ~loops[1].calls[i].ok

\* C30: while the responder keeps running and getConnections keeps answering,
\* every connection in state inbound_offer is eventually accepted or deleted,
\* unless its own acceptConnection and deleteConnection fail: an offer that
\* cannot be handled does not keep the offers behind it waiting forever.
C30_NoOfferWaitsForever ==
    \A id \in 1..MaxOffers :
        ([]<>AcceptingSome) => (Inbound(id) ~> (~Inbound(id) \/ CannotBeHandled(id)))

====
